---- MODULE Spec2Model ----
(***************************************************************************)
(* Verification model of vertin: the command matcher (matcher.ts) and the  *)
(* argument / flag parser (parser/index.ts, parser/core.ts,                *)
(* parser/context.ts, parser/state.ts).                                    *)
(*                                                                         *)
(* Strings are modelled as sequences of one-character strings, so that     *)
(* startsWith('-') and substring() act on the text of a token.             *)
(* JavaScript array indices are kept 0-based as in the source; the         *)
(* helpers At and Slice translate to the 1-based sequences of TLA+.        *)
(***************************************************************************)
EXTENDS Integers, Sequences, FiniteSets, TLC

VARIABLES
  mPc,        \* matcher: "idle", "DFSMatch" or "matchCommands" (the call that just returned)
  mArgv,      \* matcher: argv of the call
  mCommands,  \* matcher: currentLevelCommands / topLevelCommands of the call
  mRoot,      \* matcher: rootCommand of the call (optional)
  mIndex,     \* matcher: index / startIndex of the call
  mPath,      \* matcher: path of the call
  mResult,    \* matcher: outcome of the call
  pPc,          \* parser: "none", "ready", "loop", "returned" or "threw"
  pContext,     \* parser: the context createParser closed over
  pArgv,        \* parser: argv of the call in progress
  pState,       \* parser: the _ParserState of the call in progress
  pEncountered, \* parser: hasEncounteredArguments of the call in progress
  pOutcome,     \* parser: what the call returned or threw
  pTrace,       \* parser: history of the loop: which function took the token at which index
  sCalls,       \* calls in progress side by side on the parser: position, argv, state object, outcome
  sHeap,        \* the _ParserState objects those calls allocated
  rPc,          \* runtime: "none", "invalid", "ready", "called", "matched", "parsed", "resolved" or "rejected"
  rOption,      \* runtime: the AppOption createRuntime closed over
  rArgs,        \* runtime: args of the invocation in progress
  rMatch,       \* runtime: matchResult of the invocation
  rParsed,      \* runtime: parsedContext of the invocation
  rHandled,     \* runtime: the handler invocations of this run: which command, with what
  rError,       \* runtime: the message createRuntime threw or the runner rejected with
  vPc,          \* resolveValue: "none" or "resolved" (the call that just returned)
  vToken,       \* resolveValue: value of the call
  vResolver,    \* resolveValue: resolver of the call
  vValue        \* resolveValue: what the call returned

matcherVars == <<mPc, mArgv, mCommands, mRoot, mIndex, mPath, mResult>>

parserVars == <<pPc, pContext, pArgv, pState, pEncountered, pOutcome, pTrace>>

sharedVars == <<sCalls, sHeap>>

runtimeVars == <<rPc, rOption, rArgs, rMatch, rParsed, rHandled, rError>>

resolverVars == <<vPc, vToken, vResolver, vValue>>

vars == <<mPc, mArgv, mCommands, mRoot, mIndex, mPath, mResult,
          pPc, pContext, pArgv, pState, pEncountered, pOutcome, pTrace,
          sCalls, sHeap,
          rPc, rOption, rArgs, rMatch, rParsed, rHandled, rError,
          vPc, vToken, vResolver, vValue>>

----------------------------------------------------------------------------
(* Bounds of the model *)

\* longest argv handed to the matcher
MaxArgv == 3

\* largest number of command nodes in a forest handed to the matcher
MaxNodes == 3

\* longest argv handed to a parser
MaxTokens == 3

\* longest argv handed to a parser by calls that run side by side
MaxShared == 2

\* largest number of command nodes in the forest of an app
MaxCommands == 2

\* largest number of tokens after the two leading entries of a runner's argv
MaxRun == 2

----------------------------------------------------------------------------
(* Optional values and JavaScript arrays *)

\* an absent optional value (undefined)
None == [some |-> FALSE]

\* a present optional value
Some(x) == [some |-> TRUE, val |-> x]

\* argv[i] with a 0-based index
At(s, i) == s[i + 1]

\* Array.prototype.slice(from) with a 0-based start
Slice(s, from) == IF from >= Len(s) THEN <<>> ELSE SubSeq(s, from + 1, Len(s))

\* all sequences over S of length at most n
RECURSIVE SeqsUpTo(_, _)
SeqsUpTo(S, n) ==
  IF n = 0 THEN {<<>>}
  ELSE LET shorter == SeqsUpTo(S, n - 1)
       IN shorter \cup {Append(s, x) : s \in {t \in shorter : Len(t) = n - 1}, x \in S}

----------------------------------------------------------------------------
(* Command nodes *)

\* execution names commands are declared with, and the tokens of argv
CommandNames == {<<"a">>, <<"b">>}

\* a command whose subCommands property is undefined
NoSubCommands == [present |-> FALSE, list |-> <<>>]

\* a command whose subCommands property is the array f
SubCommands(f) == [present |-> TRUE, list |-> f]

\* forests of exactly n unlabelled command nodes, siblings in declaration order
RECURSIVE ShapesOfSize(_)
ShapesOfSize(n) ==
  IF n = 0 THEN {<<>>}
  ELSE UNION {
         { <<[name |-> nm, subCommands |-> sc]>> \o rest :
             nm \in CommandNames,
             sc \in (IF k = 1 THEN {NoSubCommands, SubCommands(<<>>)}
                     ELSE {SubCommands(f) : f \in ShapesOfSize(k - 1)}),
             rest \in ShapesOfSize(n - k) } : k \in 1..n }

\* gives every node of a forest its identity: its position in the forest
RECURSIVE Label(_, _)
Label(f, prefix) ==
  [i \in 1..Len(f) |->
     [exec |-> [name |-> f[i].name],
      id |-> Append(prefix, i),
      subCommands |-> IF f[i].subCommands.present
                      THEN SubCommands(Label(f[i].subCommands.list, Append(prefix, i)))
                      ELSE NoSubCommands]]

\* the forests the matcher is called with
Forests == UNION {{Label(f, <<>>) : f \in ShapesOfSize(n)} : n \in 0..MaxNodes}

\* the root command: it takes no part in name matching
RootCommand == [exec |-> [name |-> <<"_", "r">>], id |-> <<0>>, subCommands |-> NoSubCommands]

\* the argv arrays the matcher is called with
Argvs == SeqsUpTo(CommandNames, MaxArgv)

----------------------------------------------------------------------------
(* matcher.ts *)

\* CommandMatchState
MatchState(command, remainingArgs, matchedPath) ==
  [threw |-> FALSE, command |-> command, remainingArgs |-> remainingArgs,
   matchedPath |-> matchedPath]

\* throw new Error(message)
Threw(message) ==
  [threw |-> TRUE, command |-> None, remainingArgs |-> <<>>, matchedPath |-> <<>>,
   message |-> message]

RECURSIVE DFSMatch(_, _, _, _)
RECURSIVE DFSScan(_, _, _, _, _)

\* DFSScan that returns the node it hits without searching its subcommands
DFSScanShallow(argv, currentLevelCommands, index, path, i) ==
  IF i >= Len(currentLevelCommands)
  THEN MatchState(None, Slice(argv, index), path)
  ELSE LET token == At(argv, index)
           command == At(currentLevelCommands, i)
       IN IF command.exec.name = token
          THEN MatchState(Some(command), Slice(argv, index + 1), path \o <<token>>)
          ELSE DFSScan(argv, currentLevelCommands, index, path, i + 1)

\* DFSScan that goes on to the later siblings when the subtree of the node it
\* hits yields no deeper match
DFSScanBacktrack(argv, currentLevelCommands, index, path, i) ==
  IF i >= Len(currentLevelCommands)
  THEN MatchState(None, Slice(argv, index), path)
  ELSE LET token == At(argv, index)
           command == At(currentLevelCommands, i)
       IN IF command.exec.name = token
          THEN LET newPath == path \o <<token>>
                   subCommands == command.subCommands
                   here == MatchState(Some(command), Slice(argv, index + 1), newPath)
                   later == DFSScan(argv, currentLevelCommands, index, path, i + 1)
               IN IF subCommands.present /\ Len(subCommands.list) > 0
                  THEN LET result == DFSMatch(argv, subCommands.list, index + 1, newPath)
                       IN IF result.command.some THEN result
                          ELSE IF later.command.some THEN later ELSE here
                  ELSE here
          ELSE DFSScan(argv, currentLevelCommands, index, path, i + 1)

\* DFSScan that leaves the matched token in remainingArgs
DFSScanKeepsToken(argv, currentLevelCommands, index, path, i) ==
  IF i >= Len(currentLevelCommands)
  THEN MatchState(None, Slice(argv, index), path)
  ELSE LET token == At(argv, index)
           command == At(currentLevelCommands, i)
       IN IF command.exec.name = token
          THEN LET newPath == IF Len(path) = 0 THEN <<token>> ELSE path \o <<token>>
                   subCommands == command.subCommands
                   here == MatchState(Some(command), Slice(argv, index), newPath)
               IN IF subCommands.present /\ Len(subCommands.list) > 0
                  THEN LET result == DFSMatch(argv, subCommands.list, index + 1, newPath)
                       IN IF result.command.some THEN result ELSE here
                  ELSE here
          ELSE DFSScan(argv, currentLevelCommands, index, path, i + 1)

\* the for loop of DFSMatch from sibling i (0-based) on
DFSScan(argv, currentLevelCommands, index, path, i) ==
  IF i >= Len(currentLevelCommands)
  THEN MatchState(None, Slice(argv, index), path)
  ELSE LET token == At(argv, index)
           command == At(currentLevelCommands, i)
       IN IF command.exec.name = token
          THEN LET newPath == IF Len(path) = 0 THEN <<token>> ELSE path \o <<token>>
                   subCommands == command.subCommands
                   here == MatchState(Some(command), Slice(argv, index + 1), newPath)
               IN IF subCommands.present /\ Len(subCommands.list) > 0
                  THEN LET result == DFSMatch(argv, subCommands.list, index + 1, newPath)
                       IN IF result.command.some THEN result ELSE here
                  ELSE here
          ELSE DFSScan(argv, currentLevelCommands, index, path, i + 1)

\* DFSMatch that forgets the path at the end of argv
DFSMatchDropsPath(argv, currentLevelCommands, index, path) ==
  IF index >= Len(argv)
  THEN MatchState(None, <<>>, <<>>)
  ELSE DFSScan(argv, currentLevelCommands, index, path, 0)

DFSMatch(argv, currentLevelCommands, index, path) ==
  IF index >= Len(argv)
  THEN MatchState(None, <<>>, path)
  ELSE DFSScan(argv, currentLevelCommands, index, path, 0)

\* matchCommands without the fallback to the root command after a failed walk
matchCommandsNoFallback(argv, topLevelCommands, rootCommand, startIndex) ==
  IF Len(topLevelCommands) = 0 /\ ~rootCommand.some
  THEN Threw("No commands available for matching")
  ELSE IF Len(topLevelCommands) = 0
  THEN MatchState(rootCommand, Slice(argv, startIndex), <<>>)
  ELSE DFSMatch(argv, topLevelCommands, startIndex, <<>>)

\* matchCommands whose root-only case consumes the token at startIndex
matchCommandsRootConsumes(argv, topLevelCommands, rootCommand, startIndex) ==
  IF Len(topLevelCommands) = 0 /\ ~rootCommand.some
  THEN Threw("No commands available for matching")
  ELSE IF Len(topLevelCommands) = 0
  THEN MatchState(rootCommand, Slice(argv, startIndex + 1), <<>>)
  ELSE LET result == DFSMatch(argv, topLevelCommands, startIndex, <<>>)
       IN IF ~result.command.some /\ rootCommand.some
          THEN MatchState(rootCommand, Slice(argv, startIndex), <<>>)
          ELSE result

\* matchCommands that demands top-level commands even when a root command exists
matchCommandsNeedsCommands(argv, topLevelCommands, rootCommand, startIndex) ==
  IF Len(topLevelCommands) = 0
  THEN Threw("No commands available for matching")
  ELSE LET result == DFSMatch(argv, topLevelCommands, startIndex, <<>>)
       IN IF ~result.command.some /\ rootCommand.some
          THEN MatchState(rootCommand, Slice(argv, startIndex), <<>>)
          ELSE result

\* matchCommands that throws when the walk finds nothing and there is no root
matchCommandsThrowsOnMiss(argv, topLevelCommands, rootCommand, startIndex) ==
  IF Len(topLevelCommands) = 0 /\ ~rootCommand.some
  THEN Threw("No commands available for matching")
  ELSE IF Len(topLevelCommands) = 0
  THEN MatchState(rootCommand, Slice(argv, startIndex), <<>>)
  ELSE LET result == DFSMatch(argv, topLevelCommands, startIndex, <<>>)
       IN IF ~result.command.some /\ rootCommand.some
          THEN MatchState(rootCommand, Slice(argv, startIndex), <<>>)
          ELSE IF ~result.command.some THEN Threw("No command found")
          ELSE result

matchCommands(argv, topLevelCommands, rootCommand, startIndex) ==
  IF Len(topLevelCommands) = 0 /\ ~rootCommand.some
  THEN Threw("No commands available for matching")
  ELSE IF Len(topLevelCommands) = 0
  THEN MatchState(rootCommand, Slice(argv, startIndex), <<>>)
  ELSE LET result == DFSMatch(argv, topLevelCommands, startIndex, <<>>)
       IN IF ~result.command.some /\ rootCommand.some
          THEN MatchState(rootCommand, Slice(argv, startIndex), <<>>)
          ELSE result

----------------------------------------------------------------------------
(* Calls of the matcher *)

MatcherIdle ==
  /\ mPc = "idle"
  /\ mArgv = <<>>
  /\ mCommands = <<>>
  /\ mRoot = None
  /\ mIndex = 0
  /\ mPath = <<>>
  /\ mResult = MatchState(None, <<>>, <<>>)

\* the paths DFSMatch is called with directly
Paths == {<<>>, <<<<"p">>>>}

\* a caller invokes the exported DFSMatch
CallDFSMatch ==
  /\ mPc = "idle"
  /\ pPc = "none"
  /\ rPc = "none"
  /\ vPc = "none"
  /\ \E argv \in Argvs, cmds \in Forests, index \in 0..MaxArgv, path \in Paths :
       /\ mPc' = "DFSMatch"
       /\ mArgv' = argv
       /\ mCommands' = cmds
       /\ mRoot' = None
       /\ mIndex' = index
       /\ mPath' = path
       /\ mResult' = DFSMatch(argv, cmds, index, path)
  /\ UNCHANGED parserVars
  /\ UNCHANGED resolverVars
  /\ UNCHANGED sharedVars
  /\ UNCHANGED runtimeVars

\* a caller invokes matchCommands
CallMatchCommands ==
  /\ mPc = "idle"
  /\ pPc = "none"
  /\ rPc = "none"
  /\ vPc = "none"
  /\ \E argv \in Argvs, cmds \in Forests, root \in {None, Some(RootCommand)},
        startIndex \in 0..MaxArgv :
       /\ mPc' = "matchCommands"
       /\ mArgv' = argv
       /\ mCommands' = cmds
       /\ mRoot' = root
       /\ mIndex' = startIndex
       /\ mPath' = <<>>
       /\ mResult' = matchCommands(argv, cmds, root, startIndex)
  /\ UNCHANGED parserVars
  /\ UNCHANGED resolverVars
  /\ UNCHANGED sharedVars
  /\ UNCHANGED runtimeVars

\* the caller drops the result
MatcherReturn ==
  /\ mPc # "idle"
  /\ mPc' = "idle"
  /\ mArgv' = <<>>
  /\ mCommands' = <<>>
  /\ mRoot' = None
  /\ mIndex' = 0
  /\ mPath' = <<>>
  /\ mResult' = MatchState(None, <<>>, <<>>)
  /\ UNCHANGED parserVars
  /\ UNCHANGED resolverVars
  /\ UNCHANGED sharedVars
  /\ UNCHANGED runtimeVars

MatcherNext == CallDFSMatch \/ CallMatchCommands \/ MatcherReturn

----------------------------------------------------------------------------
(* JavaScript values, objects and strings of the parser *)

\* a scalar value: kind tells how it was made, text is the raw token it was made from
Scalar(kind, text) == [kind |-> kind, text |-> text, items |-> <<>>]

\* an array of scalar values
Array(items) == [kind |-> <<"array">>, text |-> <<>>, items |-> items]

Undefined == Scalar(<<"undefined">>, <<>>)

True == Scalar(<<"true">>, <<>>)

False == Scalar(<<"false">>, <<>>)

\* an object or Map without keys
EmptyMap == <<>>

\* obj[key] = value, map.set(key, value)
MapSet(m, key, value) == [k \in (DOMAIN m) \cup {key} |-> IF k = key THEN value ELSE m[k]]

\* obj[key], map.get(key): undefined for a key that was never set
MapGet(m, key) == IF key \in DOMAIN m THEN m[key] ELSE Undefined

\* String.prototype.substring(from) with a 0-based start
Substring(str, from) == IF from >= Len(str) THEN <<>> ELSE SubSeq(str, from + 1, Len(str))

----------------------------------------------------------------------------
(* parser/types: resolvers, parameter options, parser options *)

\* a resolver step: a plain function is called, a constructor is instantiated
FnStep(name) == [fn |-> name, ctor |-> FALSE]

CtorStep(name) == [fn |-> name, ctor |-> TRUE]

\* a resolver given as one step / as an array of steps
Single(step) == [isArray |-> FALSE, steps |-> <<step>>]

Chain(steps) == [isArray |-> TRUE, steps |-> steps]

String == Single(CtorStep("String"))

Number == Single(CtorStep("Number"))

Boolean == Single(CtorStep("Boolean"))

\* alias of a flag: absent, one string, or an array of strings
NoAlias == [given |-> FALSE, isArray |-> FALSE, names |-> <<>>]

AliasString(name) == [given |-> TRUE, isArray |-> FALSE, names |-> <<name>>]

AliasArray(names) == [given |-> TRUE, isArray |-> TRUE, names |-> names]

\* count of a positional: absent (n = 0), a number, or 'all'
NoCount == [all |-> FALSE, n |-> 0]

CountOf(n) == [all |-> FALSE, n |-> n]

CountAll == [all |-> TRUE, n |-> 0]

\* one entry of options.flags / options.arguments; required is optional,
\* default is Undefined when the option declares none
Param(name, resolver, required, default, alias, count) ==
  [name |-> name, resolver |-> resolver, required |-> required, default |-> default,
   alias |-> alias, count |-> count]

\* ParserOption
ParserOption(resolveAlias, resolveFlagAfterArgument, resolveUnknown, arguments, flags) ==
  [resolveAlias |-> resolveAlias, resolveFlagAfterArgument |-> resolveFlagAfterArgument,
   resolveUnknown |-> resolveUnknown, arguments |-> arguments, flags |-> flags]

\* the entry of an ordered parameter object with the given key, if any
RECURSIVE Lookup(_, _)
Lookup(params, name) ==
  IF params = <<>> THEN None
  ELSE IF Head(params).name = name THEN Some(Head(params))
  ELSE Lookup(Tail(params), name)

----------------------------------------------------------------------------
(* parser/context.ts *)

\* the three maps under construction
Tables(flagLookup, flagDefaults, argumentDefaults) ==
  [flagLookup |-> flagLookup, flagDefaults |-> flagDefaults,
   argumentDefaults |-> argumentDefaults]

\* flagOpt.alias as a condition: false for undefined and for the empty
\* string, true for a non-empty string and for every array
Truthy(alias) == alias.given /\ (alias.isArray \/ alias.names[1] # <<>>)

\* a forEach that stops after the canonical name and the first alias
SetAliasesOne(flagLookup, aliases, name) ==
  IF Len(aliases) <= 1 THEN MapSet(flagLookup, name, name)
  ELSE MapSet(MapSet(flagLookup, name, name), aliases[2], name)

\* aliases.forEach(alias => flagLookup.set(alias, name))
RECURSIVE SetAliases(_, _, _)
SetAliases(flagLookup, aliases, name) ==
  IF aliases = <<>> THEN flagLookup
  ELSE SetAliases(MapSet(flagLookup, Head(aliases), name), Tail(aliases), name)

\* the default recorded for one parameter, if any
DefaultEntry(defaults, opt) ==
  IF opt.default # Undefined THEN MapSet(defaults, opt.name, opt.default)
  ELSE IF ~(opt.required = Some(TRUE)) THEN MapSet(defaults, opt.name, Undefined)
  ELSE defaults

\* a pass over the flags that registers the aliases whatever resolveAlias says
RECURSIVE ProcessFlagsAllAliases(_, _, _)
ProcessFlagsAllAliases(options, flags, t) ==
  IF flags = <<>> THEN t
  ELSE LET flagOpt == Head(flags)
           aliases == IF flagOpt.alias.given
                      THEN <<flagOpt.name>> \o flagOpt.alias.names
                      ELSE <<flagOpt.name>>
       IN ProcessFlagsAllAliases(options, Tail(flags),
            Tables(SetAliases(t.flagLookup, aliases, flagOpt.name),
                   DefaultEntry(t.flagDefaults, flagOpt),
                   t.argumentDefaults))

\* Object.entries(options.flags).forEach(...)
RECURSIVE ProcessFlags(_, _, _)
ProcessFlags(options, flags, t) ==
  IF flags = <<>> THEN t
  ELSE LET flagOpt == Head(flags)
           aliases == IF Truthy(flagOpt.alias) /\ options.resolveAlias # Some(FALSE)
                      THEN <<flagOpt.name>> \o flagOpt.alias.names
                      ELSE <<flagOpt.name>>
       IN ProcessFlags(options, Tail(flags),
            Tables(SetAliases(t.flagLookup, aliases, flagOpt.name),
                   DefaultEntry(t.flagDefaults, flagOpt),
                   t.argumentDefaults))

\* Object.entries(options.arguments).forEach(...)
RECURSIVE ProcessArguments(_, _)
ProcessArguments(arguments, t) ==
  IF arguments = <<>> THEN t
  ELSE ProcessArguments(Tail(arguments),
         Tables(t.flagLookup, t.flagDefaults,
                DefaultEntry(t.argumentDefaults, Head(arguments))))

\* a build that, once the tables are filled, switches resolveAlias off in the
\* configuration object it was given
createParserContextSwitchesOff(options) ==
  LET t0 == Tables(EmptyMap, EmptyMap, EmptyMap)
      t1 == IF options.flags.some THEN ProcessFlags(options, options.flags.val, t0) ELSE t0
      t2 == IF options.arguments.some THEN ProcessArguments(options.arguments.val, t1) ELSE t1
  IN [options |-> [options EXCEPT !.resolveAlias = Some(FALSE)],
      flagLookup |-> t2.flagLookup, flagDefaults |-> t2.flagDefaults,
      argumentDefaults |-> t2.argumentDefaults]

createParserContext(options) ==
  LET t0 == Tables(EmptyMap, EmptyMap, EmptyMap)
      t1 == IF options.flags.some THEN ProcessFlags(options, options.flags.val, t0) ELSE t0
      t2 == IF options.arguments.some THEN ProcessArguments(options.arguments.val, t1) ELSE t1
  IN [options |-> options, flagLookup |-> t2.flagLookup, flagDefaults |-> t2.flagDefaults,
      argumentDefaults |-> t2.argumentDefaults]

----------------------------------------------------------------------------
(* parser/state.ts *)

\* the result object of a parse
Result(arguments, flags, unknownArguments, unknownFlags) ==
  [arguments |-> arguments, flags |-> flags, unknownArguments |-> unknownArguments,
   unknownFlags |-> unknownFlags]

\* _ParserState
ParserState(currentIndex, currentArgIndex, result, context) ==
  [currentIndex |-> currentIndex, currentArgIndex |-> currentArgIndex,
   result |-> result, context |-> context]

\* an initial state whose result holds the two parameter maps only
createInitialStateBare(context) ==
  ParserState(0, 0, [arguments |-> context.argumentDefaults, flags |-> context.flagDefaults],
              context)

createInitialState(context) ==
  ParserState(0, 0, Result(context.argumentDefaults, context.flagDefaults, <<>>, EmptyMap),
              context)

----------------------------------------------------------------------------
(* parser/core.ts *)

\* a raw token read from argv: a string primitive
Raw(text) == Scalar(<<"string">>, text)

\* one step of a resolver applied to a value: called, or instantiated with new
ApplyStep(acc, r) ==
  IF ~r.ctor THEN Scalar(acc.kind \o <<"call", r.fn>>, acc.text)
  ELSE Scalar(acc.kind \o <<"new", r.fn>>, acc.text)

\* a reduce that runs from the last step to the first
RECURSIVE ReduceRight(_, _)
ReduceRight(steps, acc) ==
  IF steps = <<>> THEN acc
  ELSE ReduceRight(SubSeq(steps, 1, Len(steps) - 1), ApplyStep(acc, steps[Len(steps)]))

\* resolver.reduce((acc, r) => ..., value)
RECURSIVE Reduce(_, _)
Reduce(steps, acc) ==
  IF steps = <<>> THEN acc ELSE Reduce(Tail(steps), ApplyStep(acc, Head(steps)))

resolveValue(value, resolver) ==
  IF resolver.isArray THEN Reduce(resolver.steps, Raw(value))
  ELSE ApplyStep(Raw(value), resolver.steps[1])

extractFlagName(token) ==
  IF Len(token) >= 2 /\ token[1] = "-" /\ token[2] = "-"
  THEN Substring(token, 2)
  ELSE Substring(token, 1)

isFlag(token) == Len(token) >= 1 /\ token[1] = "-"

\* a step that returned the updated state
Returned(state) == [threw |-> FALSE, error |-> [kind |-> "", subject |-> <<>>], state |-> state]

\* a step that threw new Error(`<kind> <subject>`)
Thrown(kind, subject, state) ==
  [threw |-> TRUE, error |-> [kind |-> kind, subject |-> subject], state |-> state]

\* parseFlag that records an unknown flag unless the policy is 'block'
parseFlagIgnoreRecords(state, argv) ==
  LET context == state.context
      token == At(argv, state.currentIndex)
      flagName == extractFlagName(token)
  IN IF flagName \notin DOMAIN context.flagLookup
     THEN IF context.options.resolveUnknown = Some("block")
          THEN Thrown("Unknown flag", token, state)
          ELSE Returned([state EXCEPT !.result.flags = MapSet(@, flagName, True),
                                      !.currentIndex = @ + 1])
     ELSE LET mainFlagName == context.flagLookup[flagName]
              flagOpt == Lookup(context.options.flags.val, mainFlagName)
          IN IF flagOpt.val.resolver = Boolean
             THEN Returned([state EXCEPT !.result.flags = MapSet(@, mainFlagName, True),
                                         !.currentIndex = @ + 1])
             ELSE IF state.currentIndex + 1 >= Len(argv)
             THEN Thrown("Flag requires a value", token, state)
             ELSE Returned([state EXCEPT
                    !.result.flags = MapSet(@, mainFlagName,
                       resolveValue(At(argv, state.currentIndex + 1), flagOpt.val.resolver)),
                    !.currentIndex = @ + 2])

\* parseFlag that stores a value under the name the token gave
parseFlagUnderAlias(state, argv) ==
  LET context == state.context
      token == At(argv, state.currentIndex)
      flagName == extractFlagName(token)
  IN IF flagName \notin DOMAIN context.flagLookup
     THEN IF context.options.resolveUnknown = Some("block")
          THEN Thrown("Unknown flag", token, state)
          ELSE IF context.options.resolveUnknown = Some("include")
          THEN Returned([state EXCEPT !.result.flags = MapSet(@, flagName, True),
                                      !.currentIndex = @ + 1])
          ELSE Returned([state EXCEPT !.currentIndex = @ + 1])
     ELSE LET flagOpt == Lookup(context.options.flags.val, context.flagLookup[flagName])
          IN IF flagOpt.val.resolver = Boolean
             THEN Returned([state EXCEPT !.result.flags = MapSet(@, flagName, True),
                                         !.currentIndex = @ + 1])
             ELSE IF state.currentIndex + 1 >= Len(argv)
             THEN Thrown("Flag requires a value", token, state)
             ELSE Returned([state EXCEPT
                    !.result.flags = MapSet(@, flagName,
                       resolveValue(At(argv, state.currentIndex + 1), flagOpt.val.resolver)),
                    !.currentIndex = @ + 2])

\* parseFlag that stores the value of a flag and leaves its token in the input
parseFlagKeepsValue(state, argv) ==
  LET context == state.context
      token == At(argv, state.currentIndex)
      flagName == extractFlagName(token)
  IN IF flagName \notin DOMAIN context.flagLookup
     THEN IF context.options.resolveUnknown = Some("block")
          THEN Thrown("Unknown flag", token, state)
          ELSE IF context.options.resolveUnknown = Some("include")
          THEN Returned([state EXCEPT !.result.flags = MapSet(@, flagName, True),
                                      !.currentIndex = @ + 1])
          ELSE Returned([state EXCEPT !.currentIndex = @ + 1])
     ELSE LET mainFlagName == context.flagLookup[flagName]
              flagOpt == Lookup(context.options.flags.val, mainFlagName)
          IN IF flagOpt.val.resolver = Boolean
             THEN Returned([state EXCEPT !.result.flags = MapSet(@, mainFlagName, True),
                                         !.currentIndex = @ + 1])
             ELSE IF state.currentIndex + 1 >= Len(argv)
             THEN Thrown("Flag requires a value", token, state)
             ELSE Returned([state EXCEPT
                    !.result.flags = MapSet(@, mainFlagName,
                       resolveValue(At(argv, state.currentIndex + 1), flagOpt.val.resolver)),
                    !.currentIndex = @ + 1])

\* parseFlag that takes a missing value for undefined
parseFlagMissingValue(state, argv) ==
  LET context == state.context
      token == At(argv, state.currentIndex)
      flagName == extractFlagName(token)
  IN IF flagName \notin DOMAIN context.flagLookup
     THEN IF context.options.resolveUnknown = Some("block")
          THEN Thrown("Unknown flag", token, state)
          ELSE IF context.options.resolveUnknown = Some("include")
          THEN Returned([state EXCEPT !.result.flags = MapSet(@, flagName, True),
                                      !.currentIndex = @ + 1])
          ELSE Returned([state EXCEPT !.currentIndex = @ + 1])
     ELSE LET mainFlagName == context.flagLookup[flagName]
              flagOpt == Lookup(context.options.flags.val, mainFlagName)
          IN IF flagOpt.val.resolver = Boolean
             THEN Returned([state EXCEPT !.result.flags = MapSet(@, mainFlagName, True),
                                         !.currentIndex = @ + 1])
             ELSE IF state.currentIndex + 1 >= Len(argv)
             THEN Returned([state EXCEPT !.result.flags = MapSet(@, mainFlagName, Undefined),
                                         !.currentIndex = @ + 1])
             ELSE Returned([state EXCEPT
                    !.result.flags = MapSet(@, mainFlagName,
                       resolveValue(At(argv, state.currentIndex + 1), flagOpt.val.resolver)),
                    !.currentIndex = @ + 2])

\* parseFlag that also sets a Boolean flag in the defaults of the context
parseFlagInContext(state, argv) ==
  LET context == state.context
      token == At(argv, state.currentIndex)
      flagName == extractFlagName(token)
  IN IF flagName \notin DOMAIN context.flagLookup
     THEN IF context.options.resolveUnknown = Some("block")
          THEN Thrown("Unknown flag", token, state)
          ELSE IF context.options.resolveUnknown = Some("include")
          THEN Returned([state EXCEPT !.result.flags = MapSet(@, flagName, True),
                                      !.currentIndex = @ + 1])
          ELSE Returned([state EXCEPT !.currentIndex = @ + 1])
     ELSE LET mainFlagName == context.flagLookup[flagName]
              flagOpt == IF context.options.flags.some
                         THEN Lookup(context.options.flags.val, mainFlagName)
                         ELSE None
          IN IF ~flagOpt.some
             THEN Returned([state EXCEPT !.currentIndex = @ + 1])
             ELSE IF flagOpt.val.resolver = Boolean
             THEN Returned([state EXCEPT !.result.flags = MapSet(@, mainFlagName, True),
                                         !.context.flagDefaults = MapSet(@, mainFlagName, True),
                                         !.currentIndex = @ + 1])
             ELSE IF state.currentIndex + 1 >= Len(argv)
             THEN Thrown("Flag requires a value", token, state)
             ELSE LET value == At(argv, state.currentIndex + 1)
                  IN Returned([state EXCEPT
                       !.result.flags = MapSet(@, mainFlagName,
                                               resolveValue(value, flagOpt.val.resolver)),
                       !.currentIndex = @ + 2])

\* parseFlag that takes a following token as the value only if it is no flag
parseFlagWantsPlainValue(state, argv) ==
  LET context == state.context
      token == At(argv, state.currentIndex)
      flagName == extractFlagName(token)
  IN IF flagName \notin DOMAIN context.flagLookup
     THEN IF context.options.resolveUnknown = Some("block")
          THEN Thrown("Unknown flag", token, state)
          ELSE IF context.options.resolveUnknown = Some("include")
          THEN Returned([state EXCEPT !.result.flags = MapSet(@, flagName, True),
                                      !.currentIndex = @ + 1])
          ELSE Returned([state EXCEPT !.currentIndex = @ + 1])
     ELSE LET mainFlagName == context.flagLookup[flagName]
              flagOpt == IF context.options.flags.some
                         THEN Lookup(context.options.flags.val, mainFlagName)
                         ELSE None
          IN IF ~flagOpt.some
             THEN Returned([state EXCEPT !.currentIndex = @ + 1])
             ELSE IF flagOpt.val.resolver = Boolean
             THEN Returned([state EXCEPT !.result.flags = MapSet(@, mainFlagName, True),
                                         !.currentIndex = @ + 1])
             ELSE IF state.currentIndex + 1 >= Len(argv)
                       \/ isFlag(At(argv, state.currentIndex + 1))
             THEN Thrown("Flag requires a value", token, state)
             ELSE LET value == At(argv, state.currentIndex + 1)
                  IN Returned([state EXCEPT
                       !.result.flags = MapSet(@, mainFlagName,
                                               resolveValue(value, flagOpt.val.resolver)),
                       !.currentIndex = @ + 2])

\* parseFlag that keeps the value a flag already has
parseFlagFirstWins(state, argv) ==
  LET context == state.context
      token == At(argv, state.currentIndex)
      flagName == extractFlagName(token)
  IN IF flagName \notin DOMAIN context.flagLookup
     THEN IF context.options.resolveUnknown = Some("block")
          THEN Thrown("Unknown flag", token, state)
          ELSE IF context.options.resolveUnknown = Some("include")
          THEN Returned([state EXCEPT !.result.flags = MapSet(@, flagName, True),
                                      !.currentIndex = @ + 1])
          ELSE Returned([state EXCEPT !.currentIndex = @ + 1])
     ELSE LET mainFlagName == context.flagLookup[flagName]
              flagOpt == IF context.options.flags.some
                         THEN Lookup(context.options.flags.val, mainFlagName)
                         ELSE None
          IN IF ~flagOpt.some
             THEN Returned([state EXCEPT !.currentIndex = @ + 1])
             ELSE IF flagOpt.val.resolver = Boolean
             THEN Returned([state EXCEPT !.result.flags = MapSet(@, mainFlagName, True),
                                         !.currentIndex = @ + 1])
             ELSE IF state.currentIndex + 1 >= Len(argv)
             THEN Thrown("Flag requires a value", token, state)
             ELSE LET value == At(argv, state.currentIndex + 1)
                  IN Returned([state EXCEPT
                       !.result.flags =
                          IF MapGet(@, mainFlagName) # Undefined THEN @
                          ELSE MapSet(@, mainFlagName,
                                      resolveValue(value, flagOpt.val.resolver)),
                       !.currentIndex = @ + 2])

parseFlag(state, argv) ==
  LET context == state.context
      token == At(argv, state.currentIndex)
      flagName == extractFlagName(token)
  IN IF flagName \notin DOMAIN context.flagLookup
     THEN IF context.options.resolveUnknown = Some("block")
          THEN Thrown("Unknown flag", token, state)
          ELSE IF context.options.resolveUnknown = Some("include")
          THEN Returned([state EXCEPT !.result.flags = MapSet(@, flagName, True),
                                      !.currentIndex = @ + 1])
          ELSE Returned([state EXCEPT !.currentIndex = @ + 1])
     ELSE LET mainFlagName == context.flagLookup[flagName]
              flagOpt == IF context.options.flags.some
                         THEN Lookup(context.options.flags.val, mainFlagName)
                         ELSE None
          IN IF ~flagOpt.some
             THEN Returned([state EXCEPT !.currentIndex = @ + 1])
             ELSE IF flagOpt.val.resolver = Boolean
             THEN Returned([state EXCEPT !.result.flags = MapSet(@, mainFlagName, True),
                                         !.currentIndex = @ + 1])
             ELSE IF state.currentIndex + 1 >= Len(argv)
             THEN Thrown("Flag requires a value", token, state)
             ELSE LET value == At(argv, state.currentIndex + 1)
                  IN Returned([state EXCEPT
                       !.result.flags = MapSet(@, mainFlagName,
                                               resolveValue(value, flagOpt.val.resolver)),
                       !.currentIndex = @ + 2])

\* a for loop that pushes count values, undefined once the input has run out
RECURSIVE CollectPadded(_, _, _, _, _)
CollectPadded(argv, resolver, count, newIndex, j) ==
  IF j < count
  THEN <<IF newIndex < Len(argv) THEN resolveValue(At(argv, newIndex), resolver)
         ELSE Undefined>>
         \o CollectPadded(argv, resolver, count, newIndex + 1, j + 1)
  ELSE <<>>

\* a for loop that stops in front of a token that begins with a dash
RECURSIVE CollectUntilFlag(_, _, _, _, _)
CollectUntilFlag(argv, resolver, count, newIndex, j) ==
  IF j < count /\ newIndex < Len(argv) /\ (j = 0 \/ ~isFlag(At(argv, newIndex)))
  THEN <<resolveValue(At(argv, newIndex), resolver)>>
         \o CollectUntilFlag(argv, resolver, count, newIndex + 1, j + 1)
  ELSE <<>>

\* the for loop of parseArgument: the values pushed from newIndex on, j pushes done
RECURSIVE Collect(_, _, _, _, _)
Collect(argv, resolver, count, newIndex, j) ==
  IF j < count /\ newIndex < Len(argv)
  THEN <<resolveValue(At(argv, newIndex), resolver)>>
         \o Collect(argv, resolver, count, newIndex + 1, j + 1)
  ELSE <<>>

\* a map that keeps the first element only
ResolveAllFirst(args, resolver) == <<resolveValue(args[1], resolver)>>

\* remainingArgs.map(arg => resolveValue(arg, resolver))
ResolveAll(args, resolver) == [i \in 1..Len(args) |-> resolveValue(args[i], resolver)]

\* parseArgument that skips an excess token under every policy
parseArgumentNeverBlocks(state, argv) ==
  LET arguments == state.context.options.arguments
  IN IF ~arguments.some \/ state.currentArgIndex >= Len(arguments.val)
     THEN Returned([state EXCEPT !.currentIndex = @ + 1])
     ELSE LET argOpt == At(arguments.val, state.currentArgIndex)
              count == IF argOpt.count.n = 0 THEN 1 ELSE argOpt.count.n
              values == IF argOpt.count.all
                        THEN ResolveAll(Slice(argv, state.currentIndex), argOpt.resolver)
                        ELSE Collect(argv, argOpt.resolver, count, state.currentIndex, 0)
          IN Returned([state EXCEPT
               !.result.arguments =
                  MapSet(@, argOpt.name,
                         IF ~argOpt.count.all /\ count = 1 THEN values[1] ELSE Array(values)),
               !.currentIndex = @ + Len(values),
               !.currentArgIndex = IF argOpt.count.all THEN @ ELSE @ + 1])

\* parseArgument that leaves the cursor where it is on an excess token
parseArgumentStalls(state, argv) ==
  LET arguments == state.context.options.arguments
  IN IF ~arguments.some \/ state.currentArgIndex >= Len(arguments.val)
     THEN IF state.context.options.resolveUnknown = Some("block")
          THEN Thrown("Unexpected argument", At(argv, state.currentIndex), state)
          ELSE Returned(state)
     ELSE parseArgumentNeverBlocks(state, argv)

parseArgument(state, argv) ==
  LET context == state.context
      arguments == context.options.arguments
  IN IF ~arguments.some \/ state.currentArgIndex >= Len(arguments.val)
     THEN IF context.options.resolveUnknown = Some("block")
          THEN Thrown("Unexpected argument", At(argv, state.currentIndex), state)
          ELSE Returned([state EXCEPT !.currentIndex = @ + 1])
     ELSE LET argOpt == At(arguments.val, state.currentArgIndex)
              currentArgName == argOpt.name
              count == IF argOpt.count.all THEN 0
                       ELSE IF argOpt.count.n = 0 THEN 1 ELSE argOpt.count.n
          IN IF argOpt.count.all
             THEN Returned([state EXCEPT
                    !.result.arguments =
                       MapSet(@, currentArgName,
                              Array(ResolveAll(Slice(argv, state.currentIndex),
                                               argOpt.resolver))),
                    !.currentIndex = Len(argv)])
             ELSE LET values == Collect(argv, argOpt.resolver, count, state.currentIndex, 0)
                  IN Returned([state EXCEPT
                       !.result.arguments =
                          MapSet(@, currentArgName,
                                 IF count = 1
                                 THEN (IF Len(values) = 0 THEN Undefined ELSE values[1])
                                 ELSE Array(values)),
                       !.currentIndex = @ + Len(values),
                       !.currentArgIndex = @ + 1])

\* the first entry, in declaration order, that is required and still undefined
RECURSIVE FirstMissing(_, _)
FirstMissing(params, values) ==
  IF params = <<>> THEN None
  ELSE IF Head(params).required = Some(TRUE) /\ MapGet(values, Head(params).name) = Undefined
  THEN Some(Head(params).name)
  ELSE FirstMissing(Tail(params), values)

\* a validation that looks at the positionals only
validateArgumentsOnly(state) ==
  LET options == state.context.options
      argument == IF options.arguments.some
                  THEN FirstMissing(options.arguments.val, state.result.arguments)
                  ELSE None
  IN IF argument.some THEN Thrown("Required argument is missing", argument.val, state)
     ELSE Returned(state)

\* a validation that looks at the flags before the positionals
validateFlagsFirst(state) ==
  LET options == state.context.options
      argument == IF options.arguments.some
                  THEN FirstMissing(options.arguments.val, state.result.arguments)
                  ELSE None
      flag == IF options.flags.some
              THEN FirstMissing(options.flags.val, state.result.flags)
              ELSE None
  IN IF flag.some THEN Thrown("Required flag is missing", flag.val, state)
     ELSE IF argument.some THEN Thrown("Required argument is missing", argument.val, state)
     ELSE Returned(state)

validateRequiredParameters(state) ==
  LET options == state.context.options
      argument == IF options.arguments.some
                  THEN FirstMissing(options.arguments.val, state.result.arguments)
                  ELSE None
      flag == IF options.flags.some
              THEN FirstMissing(options.flags.val, state.result.flags)
              ELSE None
  IN IF argument.some THEN Thrown("Required argument is missing", argument.val, state)
     ELSE IF flag.some THEN Thrown("Required flag is missing", flag.val, state)
     ELSE Returned(state)

----------------------------------------------------------------------------
(* parser/index.ts *)

\* the test of a main loop that never blocks a flag token
FlagAllowedAlways(encountered, options) == TRUE

\* the test of _parse on a flag token: flags are allowed before any argument,
\* and after one unless resolveFlagAfterArgument is false
FlagAllowed(encountered, options) ==
  ~encountered \/ options.resolveFlagAfterArgument # Some(FALSE)

\* what a call hands to its caller: the result returned or the error thrown
Outcome(status, error, result) == [status |-> status, error |-> error, result |-> result]

\* the while loop of _parse and what follows it, run on a state of its own
RECURSIVE ParseLoop(_, _, _)
ParseLoop(state, argv, hasEncounteredArguments) ==
  IF state.currentIndex < Len(argv)
  THEN LET token == At(argv, state.currentIndex)
           step == IF isFlag(token)
                   THEN IF FlagAllowed(hasEncounteredArguments, state.context.options)
                        THEN parseFlag(state, argv)
                        ELSE Thrown("Flag cannot appear after arguments", token, state)
                   ELSE parseArgument(state, argv)
       IN IF step.threw
          THEN Outcome("threw", step.error, Result(EmptyMap, EmptyMap, <<>>, EmptyMap))
          ELSE ParseLoop(step.state, argv, hasEncounteredArguments \/ ~isFlag(token))
  ELSE LET check == validateRequiredParameters(state)
       IN IF check.threw
          THEN Outcome("threw", check.error, Result(EmptyMap, EmptyMap, <<>>, EmptyMap))
          ELSE Outcome("returned", [kind |-> "", subject |-> <<>>], state.result)

\* _parse(argv, context)
Parse(argv, context) == ParseLoop(createInitialState(context), argv, FALSE)

\* the parser configurations: every setting of the three switches, present
\* or omitted, over the declared parameter sets
Switches == {None, Some(TRUE), Some(FALSE)}

Policies == {None, Some("ignore"), Some("include"), Some("block")}

\* flag v: boolean, alias 'V' given as a string, default false
FlagV == Param(<<"v">>, Boolean, None, False, AliasString(<<"V">>), NoCount)

\* flag v: boolean, aliases given as an array, no default
FlagVArray == Param(<<"v">>, Boolean, Some(FALSE), Undefined, AliasArray(<<<<"V">>, <<"w">>>>), NoCount)

\* flag p: takes a value, required
FlagP == Param(<<"p">>, Number, Some(TRUE), Undefined, NoAlias, NoCount)

\* flag p: takes a value through a chain of resolvers, optional, alias 'u'
FlagPChain == Param(<<"p">>, Chain(<<FnStep("trim"), CtorStep("Number")>>), None, Undefined,
                    AliasString(<<"u">>), NoCount)

\* positional x: one token, required
ArgX == Param(<<"x">>, String, Some(TRUE), Undefined, NoAlias, NoCount)

\* positional x: up to two tokens
ArgX2 == Param(<<"x">>, String, None, Undefined, NoAlias, CountOf(2))

\* positional r: all remaining tokens
ArgRest == Param(<<"r">>, String, None, Undefined, NoAlias, CountAll)

\* positional y: one token, required
ArgY == Param(<<"y">>, String, Some(TRUE), Undefined, NoAlias, NoCount)

\* flag v: boolean, required, no alias
FlagVRequired == Param(<<"v">>, Boolean, Some(TRUE), Undefined, NoAlias, NoCount)

\* the declared parameters: <<options.arguments, options.flags>>
ParameterSets ==
  { <<None, None>>,
    <<Some(<<>>), Some(<<>>)>>,
    <<Some(<<ArgX>>), Some(<<FlagV, FlagP>>)>>,
    <<Some(<<ArgX2, ArgRest>>), Some(<<FlagVArray, FlagPChain>>)>>,
    <<None, Some(<<FlagV>>)>>,
    <<Some(<<ArgRest>>), None>>,
    <<Some(<<ArgRest, ArgX>>), Some(<<FlagV>>)>>,
    <<Some(<<ArgX, ArgY>>), Some(<<FlagVRequired, FlagP>>)>> }

ParserOptions ==
  { ParserOption(ra, rf, ru, ps[1], ps[2]) :
      ra \in Switches, rf \in Switches, ru \in Policies, ps \in ParameterSets }

\* the tokens of a parser's argv: --v, -V, --p, --u, f, g
ParserTokens ==
  { <<"-", "-", "v">>, <<"-", "V">>, <<"-", "-", "p">>, <<"-", "-", "u">>, <<"f">>, <<"g">> }

ParserArgvs == SeqsUpTo(ParserTokens, MaxTokens)

\* the context and state variables while no parser / no call exists
BlankContext == createParserContext(ParserOption(None, None, None, None, None))

NoOutcome == [status |-> "none", error |-> [kind |-> "", subject |-> <<>>],
              result |-> Result(EmptyMap, EmptyMap, <<>>, EmptyMap)]

NoCall ==
  /\ pArgv = <<>>
  /\ pState = createInitialState(BlankContext)
  /\ pEncountered = FALSE
  /\ pOutcome = NoOutcome
  /\ pTrace = <<>>

ParserIdle ==
  /\ pPc = "none"
  /\ pContext = BlankContext
  /\ NoCall

\* createParser(options)
CreateParser ==
  /\ pPc = "none"
  /\ mPc = "idle"
  /\ rPc = "none"
  /\ vPc = "none"
  /\ \E options \in ParserOptions : pContext' = createParserContext(options)
  /\ pPc' = "ready"
  /\ UNCHANGED <<pArgv, pState, pEncountered, pOutcome, pTrace>>
  /\ UNCHANGED matcherVars
  /\ UNCHANGED resolverVars
  /\ UNCHANGED runtimeVars
  /\ UNCHANGED sharedVars

\* parser(argv): _parse up to the while loop
CallParser ==
  /\ pPc = "ready"
  /\ \E argv \in ParserArgvs : pArgv' = argv
  /\ pState' = createInitialState(pContext)
  /\ pEncountered' = FALSE
  /\ pTrace' = <<>>
  /\ pPc' = "loop"
  /\ UNCHANGED <<pContext, pOutcome>>
  /\ UNCHANGED matcherVars
  /\ UNCHANGED resolverVars
  /\ UNCHANGED runtimeVars
  /\ UNCHANGED sharedVars

\* what a step of the loop leaves behind
StepOutcome(step, by) ==
  /\ pTrace' = Append(pTrace, [at |-> pState.currentIndex, by |-> by,
                                next |-> step.state.currentIndex])
  /\ IF step.threw
     THEN /\ pPc' = "threw"
          /\ pOutcome' = [status |-> "threw", error |-> step.error, result |-> NoOutcome.result]
          /\ pState' = pState
     ELSE /\ pPc' = "loop"
          /\ pOutcome' = pOutcome
          /\ pState' = step.state

\* an iteration on a flag token that takes the value it consumed for an argument
LoopParseFlagCountsValue ==
  /\ pPc = "loop"
  /\ pState.currentIndex < Len(pArgv)
  /\ isFlag(At(pArgv, pState.currentIndex))
  /\ FlagAllowed(pEncountered, pContext.options)
  /\ StepOutcome(parseFlag(pState, pArgv), "parseFlag")
  /\ pEncountered' =
       (pEncountered \/ parseFlag(pState, pArgv).state.currentIndex = pState.currentIndex + 2)
  /\ UNCHANGED <<pContext, pArgv>>
  /\ UNCHANGED matcherVars
  /\ UNCHANGED resolverVars
  /\ UNCHANGED runtimeVars
  /\ UNCHANGED sharedVars

\* one iteration of the while loop on a flag token that may be parsed
LoopParseFlag ==
  /\ pPc = "loop"
  /\ pState.currentIndex < Len(pArgv)
  /\ isFlag(At(pArgv, pState.currentIndex))
  /\ FlagAllowed(pEncountered, pContext.options)
  /\ StepOutcome(parseFlag(pState, pArgv), "parseFlag")
  /\ UNCHANGED <<pContext, pArgv, pEncountered>>
  /\ UNCHANGED matcherVars
  /\ UNCHANGED resolverVars
  /\ UNCHANGED runtimeVars
  /\ UNCHANGED sharedVars

\* one iteration of the while loop on a flag token that comes too late
LoopFlagAfterArgument ==
  /\ pPc = "loop"
  /\ pState.currentIndex < Len(pArgv)
  /\ isFlag(At(pArgv, pState.currentIndex))
  /\ ~FlagAllowed(pEncountered, pContext.options)
  /\ StepOutcome(Thrown("Flag cannot appear after arguments",
                        At(pArgv, pState.currentIndex), pState), "_parse")
  /\ UNCHANGED <<pContext, pArgv, pEncountered>>
  /\ UNCHANGED matcherVars
  /\ UNCHANGED resolverVars
  /\ UNCHANGED runtimeVars
  /\ UNCHANGED sharedVars

\* one iteration of the while loop on an argument token
LoopParseArgument ==
  /\ pPc = "loop"
  /\ pState.currentIndex < Len(pArgv)
  /\ ~isFlag(At(pArgv, pState.currentIndex))
  /\ pEncountered' = TRUE
  /\ StepOutcome(parseArgument(pState, pArgv), "parseArgument")
  /\ UNCHANGED <<pContext, pArgv>>
  /\ UNCHANGED matcherVars
  /\ UNCHANGED resolverVars
  /\ UNCHANGED runtimeVars
  /\ UNCHANGED sharedVars

\* the loop ends: validateRequiredParameters, then return state.result
LoopExit ==
  /\ pPc = "loop"
  /\ pState.currentIndex >= Len(pArgv)
  /\ LET check == validateRequiredParameters(pState)
     IN IF check.threw
        THEN /\ pPc' = "threw"
             /\ pOutcome' = [status |-> "threw", error |-> check.error,
                             result |-> NoOutcome.result]
        ELSE /\ pPc' = "returned"
             /\ pOutcome' = [status |-> "returned", error |-> NoOutcome.error,
                             result |-> pState.result]
  /\ UNCHANGED <<pContext, pArgv, pState, pEncountered, pTrace>>
  /\ UNCHANGED matcherVars
  /\ UNCHANGED resolverVars
  /\ UNCHANGED runtimeVars
  /\ UNCHANGED sharedVars

\* the caller has taken the result or the error; the parser can be called again
ParserReturn ==
  /\ pPc \in {"returned", "threw"}
  /\ pPc' = "ready"
  /\ pArgv' = <<>>
  /\ pState' = createInitialState(BlankContext)
  /\ pEncountered' = FALSE
  /\ pOutcome' = NoOutcome
  /\ pTrace' = <<>>
  /\ UNCHANGED pContext
  /\ UNCHANGED matcherVars
  /\ UNCHANGED resolverVars
  /\ UNCHANGED runtimeVars
  /\ UNCHANGED sharedVars

ParserNext ==
  \/ CreateParser
  \/ CallParser
  \/ LoopParseFlag
  \/ LoopFlagAfterArgument
  \/ LoopParseArgument
  \/ LoopExit
  \/ ParserReturn

----------------------------------------------------------------------------
(* parser/context.ts and parser/state.ts on their own: createParserContext
   over a wider range of declarations than the parsers above are built
   from, then createInitialState on the context it returned. *)

\* the declarations of one flag: with and without aliases, an alias that is
\* the empty string, an alias that is the name of the other flag, required
\* or not, with and without default
FlagDeclarations(name) ==
  { Param(name, Boolean, required, default, alias, NoCount) :
      required \in {None, Some(FALSE), Some(TRUE)},
      default \in {Undefined, False},
      alias \in {NoAlias, AliasString(<<"V">>), AliasString(<<>>), AliasString(<<"p">>),
                 AliasArray(<< <<"V">>, <<"w">> >>)} }

\* options.flags: undefined, empty, one flag, or flags v and p in either order
FlagObjects ==
  {None, Some(<<>>)}
    \cup {Some(<<f>>) : f \in FlagDeclarations(<<"v">>)}
    \cup {Some(<<f, g>>) : f \in FlagDeclarations(<<"v">>), g \in FlagDeclarations(<<"p">>)}
    \cup {Some(<<g, f>>) : f \in FlagDeclarations(<<"v">>), g \in FlagDeclarations(<<"p">>)}

\* options.arguments: undefined, empty, or one positional, required or not,
\* with and without default
ArgumentObjects ==
  {None, Some(<<>>)}
    \cup { Some(<<Param(<<"x">>, String, required, default, NoAlias, NoCount)>>) :
             required \in {None, Some(FALSE), Some(TRUE)},
             default \in {Undefined, Scalar(<<"string">>, <<"o">>)} }

ContextOptions ==
  { ParserOption(ra, None, None, arguments, flags) :
      ra \in Switches, arguments \in ArgumentObjects, flags \in FlagObjects }

\* createParserContext(options)
BuildContext ==
  /\ pPc = "none"
  /\ mPc = "idle"
  /\ rPc = "none"
  /\ vPc = "none"
  /\ \E options \in ContextOptions : pContext' = createParserContext(options)
  /\ pPc' = "built"
  /\ UNCHANGED <<pArgv, pState, pEncountered, pOutcome, pTrace>>
  /\ UNCHANGED matcherVars
  /\ UNCHANGED resolverVars
  /\ UNCHANGED sharedVars
  /\ UNCHANGED runtimeVars

\* createInitialState(context)
StartState ==
  /\ pPc = "built"
  /\ pState' = createInitialState(pContext)
  /\ pPc' = "started"
  /\ UNCHANGED <<pContext, pArgv, pEncountered, pOutcome, pTrace>>
  /\ UNCHANGED matcherVars
  /\ UNCHANGED resolverVars
  /\ UNCHANGED sharedVars
  /\ UNCHANGED runtimeVars

ContextNext == BuildContext \/ StartState

----------------------------------------------------------------------------
(* parser/core.ts: resolveValue called on its own *)

MaxChain == 3

\* the steps of a resolver: an arrow function and two constructors
ResolverSteps == {FnStep("trim"), CtorStep("Number"), CtorStep("String")}

\* a resolver: one step alone, or an array of up to MaxChain steps
Resolvers ==
  {Single(step) : step \in ResolverSteps}
    \cup {Chain(steps) : steps \in SeqsUpTo(ResolverSteps, MaxChain)}

\* the raw strings handed to resolveValue: 'f', ' 5', '-1'
ResolverTokens == { <<"f">>, <<" ", "5">>, <<"-", "1">> }

ResolverIdle ==
  /\ vPc = "none"
  /\ vToken = <<>>
  /\ vResolver = String
  /\ vValue = Undefined

\* resolveValue(value, resolver)
CallResolveValue ==
  /\ vPc = "none"
  /\ mPc = "idle"
  /\ pPc = "none"
  /\ rPc = "none"
  /\ \E value \in ResolverTokens, resolver \in Resolvers :
       /\ vToken' = value
       /\ vResolver' = resolver
       /\ vValue' = resolveValue(value, resolver)
  /\ vPc' = "resolved"
  /\ UNCHANGED matcherVars
  /\ UNCHANGED parserVars
  /\ UNCHANGED sharedVars
  /\ UNCHANGED runtimeVars

\* the caller has taken the value
ResolverReturn ==
  /\ vPc = "resolved"
  /\ vPc' = "none"
  /\ vToken' = <<>>
  /\ vResolver' = String
  /\ vValue' = Undefined
  /\ UNCHANGED matcherVars
  /\ UNCHANGED parserVars
  /\ UNCHANGED sharedVars
  /\ UNCHANGED runtimeVars

ResolverNext == CallResolveValue \/ ResolverReturn

----------------------------------------------------------------------------
(* parser/index.ts: calls of one parser side by side.  Every call runs _parse
   on the context the parser closed over; its state is the object
   createInitialState allocated for it, and state.context is that one
   context, so a write to it would reach every call. *)

\* the callers
Calls == {"a", "b"}

\* the places for _ParserState objects
Cells == {1, 2}

\* an allocation that hands every call the same object
AllocateSame(heap) == 1

\* a _ParserState object that createInitialState returns: a place no live
\* object occupies
Allocate(heap) == CHOOSE i \in Cells : ~heap[i].live /\ \A j \in Cells : j < i => heap[j].live

\* a place that holds no object
NoObject == [live |-> FALSE, state |-> createInitialState(BlankContext)]

\* a caller that is not in a call
NotCalling == [pc |-> "idle", argv |-> <<>>, state |-> 0, encountered |-> FALSE,
               outcome |-> NoOutcome]

SharedIdle ==
  /\ sCalls = [c \in Calls |-> NotCalling]
  /\ sHeap = [i \in Cells |-> NoObject]

\* the configurations and tokens of the calls side by side
SharedOptions ==
  { ParserOption(None, rf, ru, ps[1], ps[2]) :
      rf \in {None, Some(FALSE)}, ru \in {None, Some("block")},
      ps \in { <<Some(<<ArgX>>), Some(<<FlagV, FlagP>>)>>,
               <<Some(<<ArgX2, ArgRest>>), Some(<<FlagVArray, FlagPChain>>)>> } }

SharedTokens == { <<"-", "-", "v">>, <<"-", "-", "p">>, <<"f">> }

SharedArgvs == SeqsUpTo(SharedTokens, MaxShared)

\* the state object of a call, as the call reads it
StateOf(c) == [sHeap[sCalls[c].state].state EXCEPT !.context = pContext]

\* createParser(options), for callers that will call side by side
CreateSharedParser ==
  /\ pPc = "none"
  /\ mPc = "idle"
  /\ rPc = "none"
  /\ vPc = "none"
  /\ \E options \in SharedOptions : pContext' = createParserContext(options)
  /\ pPc' = "shared"
  /\ UNCHANGED <<pArgv, pState, pEncountered, pOutcome, pTrace>>
  /\ UNCHANGED matcherVars
  /\ UNCHANGED resolverVars
  /\ UNCHANGED runtimeVars
  /\ UNCHANGED sharedVars

\* parser(argv) by caller c: _parse up to the while loop
SharedCall(c) ==
  /\ pPc = "shared"
  /\ sCalls[c].pc = "idle"
  /\ \E argv \in SharedArgvs :
       LET state == Allocate(sHeap)
       IN /\ sHeap' = [sHeap EXCEPT ![state] = [live |-> TRUE,
                                                state |-> createInitialState(pContext)]]
          /\ sCalls' = [sCalls EXCEPT ![c] = [pc |-> "loop", argv |-> argv, state |-> state,
                                              encountered |-> FALSE, outcome |-> NoOutcome]]
  /\ pContext' = createInitialState(pContext).context
  /\ UNCHANGED <<pPc, pArgv, pState, pEncountered, pOutcome, pTrace>>
  /\ UNCHANGED matcherVars
  /\ UNCHANGED resolverVars
  /\ UNCHANGED runtimeVars

\* what a step of the loop of caller c leaves behind: in the caller, in its
\* state object and in the context that the state object refers to
SharedOutcome(c, step, encountered) ==
  /\ pContext' = step.state.context
  /\ IF step.threw
     THEN /\ sCalls' = [sCalls EXCEPT ![c].pc = "threw",
                                      ![c].outcome = [status |-> "threw", error |-> step.error,
                                                      result |-> NoOutcome.result]]
          /\ UNCHANGED sHeap
     ELSE /\ sCalls' = [sCalls EXCEPT ![c].encountered = encountered]
          /\ sHeap' = [sHeap EXCEPT ![sCalls[c].state].state = step.state]

\* one iteration of the while loop of caller c on a flag token that may be parsed
SharedParseFlag(c) ==
  /\ sCalls[c].pc = "loop"
  /\ StateOf(c).currentIndex < Len(sCalls[c].argv)
  /\ isFlag(At(sCalls[c].argv, StateOf(c).currentIndex))
  /\ FlagAllowed(sCalls[c].encountered, pContext.options)
  /\ SharedOutcome(c, parseFlag(StateOf(c), sCalls[c].argv), sCalls[c].encountered)
  /\ UNCHANGED <<pPc, pArgv, pState, pEncountered, pOutcome, pTrace>>
  /\ UNCHANGED matcherVars
  /\ UNCHANGED resolverVars
  /\ UNCHANGED runtimeVars

\* one iteration of the while loop of caller c on a flag token that comes too late
SharedFlagAfterArgument(c) ==
  /\ sCalls[c].pc = "loop"
  /\ StateOf(c).currentIndex < Len(sCalls[c].argv)
  /\ isFlag(At(sCalls[c].argv, StateOf(c).currentIndex))
  /\ ~FlagAllowed(sCalls[c].encountered, pContext.options)
  /\ SharedOutcome(c, Thrown("Flag cannot appear after arguments",
                             At(sCalls[c].argv, StateOf(c).currentIndex), StateOf(c)),
                   sCalls[c].encountered)
  /\ UNCHANGED <<pPc, pArgv, pState, pEncountered, pOutcome, pTrace>>
  /\ UNCHANGED matcherVars
  /\ UNCHANGED resolverVars
  /\ UNCHANGED runtimeVars

\* one iteration of the while loop of caller c on an argument token
SharedParseArgument(c) ==
  /\ sCalls[c].pc = "loop"
  /\ StateOf(c).currentIndex < Len(sCalls[c].argv)
  /\ ~isFlag(At(sCalls[c].argv, StateOf(c).currentIndex))
  /\ SharedOutcome(c, parseArgument(StateOf(c), sCalls[c].argv), TRUE)
  /\ UNCHANGED <<pPc, pArgv, pState, pEncountered, pOutcome, pTrace>>
  /\ UNCHANGED matcherVars
  /\ UNCHANGED resolverVars
  /\ UNCHANGED runtimeVars

\* the loop of caller c ends: validateRequiredParameters, then return state.result
SharedExit(c) ==
  /\ sCalls[c].pc = "loop"
  /\ StateOf(c).currentIndex >= Len(sCalls[c].argv)
  /\ LET check == validateRequiredParameters(StateOf(c))
     IN /\ sCalls' = [sCalls EXCEPT
             ![c].pc = IF check.threw THEN "threw" ELSE "returned",
             ![c].outcome = IF check.threw
                            THEN [status |-> "threw", error |-> check.error,
                                  result |-> NoOutcome.result]
                            ELSE [status |-> "returned", error |-> NoOutcome.error,
                                  result |-> StateOf(c).result]]
        /\ pContext' = check.state.context
  /\ UNCHANGED sHeap
  /\ UNCHANGED <<pPc, pArgv, pState, pEncountered, pOutcome, pTrace>>
  /\ UNCHANGED matcherVars
  /\ UNCHANGED resolverVars
  /\ UNCHANGED runtimeVars

\* caller c has taken the result or the error; its state object is garbage
SharedReturn(c) ==
  /\ sCalls[c].pc \in {"returned", "threw"}
  /\ sCalls' = [sCalls EXCEPT ![c] = NotCalling]
  /\ sHeap' = [sHeap EXCEPT ![sCalls[c].state] = NoObject]
  /\ UNCHANGED parserVars
  /\ UNCHANGED matcherVars
  /\ UNCHANGED resolverVars
  /\ UNCHANGED runtimeVars

SharedNext ==
  \/ CreateSharedParser
  \/ \E c \in Calls : SharedCall(c)
  \/ \E c \in Calls : SharedParseFlag(c)
  \/ \E c \in Calls : SharedFlagAfterArgument(c)
  \/ \E c \in Calls : SharedParseArgument(c)
  \/ \E c \in Calls : SharedExit(c)
  \/ \E c \in Calls : SharedReturn(c)

----------------------------------------------------------------------------
(* utils.ts, validator.ts *)

\* String.prototype.trim() on the texts of the model: blanks at both ends go
RECURSIVE TrimStart(_)
TrimStart(str) == IF str # <<>> /\ Head(str) = " " THEN TrimStart(Tail(str)) ELSE str

RECURSIVE TrimEnd(_)
TrimEnd(str) ==
  IF str # <<>> /\ str[Len(str)] = " " THEN TrimEnd(SubSeq(str, 1, Len(str) - 1)) ELSE str

\* isNotEmpty(payload): payload is an optional string
isNotEmpty(payload) == payload.some /\ Len(TrimEnd(TrimStart(payload.val))) > 0

\* option.commands: undefined, one Command, or an array of them
NoCommands == [given |-> FALSE, isArray |-> FALSE, list |-> <<>>]

OneCommand(command) == [given |-> TRUE, isArray |-> FALSE, list |-> <<command>>]

CommandArray(list) == [given |-> TRUE, isArray |-> TRUE, list |-> list]

\* AppOption
AppOption(name, description, version, rootCommand, commands, parserOptions) ==
  [name |-> name, description |-> description, version |-> version,
   rootCommand |-> rootCommand, commands |-> commands, parserOptions |-> parserOptions]

\* validateAppOption that lets an empty commands array pass
validateAppOptionAllowsEmpty(option) ==
  IF ~isNotEmpty(option.name)
  THEN Some("App option must include non-empty name property")
  ELSE IF ~isNotEmpty(option.description)
  THEN Some("App option must include non-empty description property")
  ELSE IF ~isNotEmpty(option.version)
  THEN Some("App option must include non-empty version property")
  ELSE IF ~option.rootCommand.some /\ ~option.commands.given
  THEN Some("App option must include either rootCommand or commands property")
  ELSE None

\* validateAppOption(option): the message it throws, if it throws (written
\* here without the backquotes around the property names)
validateAppOption(option) ==
  IF ~isNotEmpty(option.name)
  THEN Some("App option must include non-empty name property")
  ELSE IF ~isNotEmpty(option.description)
  THEN Some("App option must include non-empty description property")
  ELSE IF ~isNotEmpty(option.version)
  THEN Some("App option must include non-empty version property")
  ELSE IF ~option.rootCommand.some /\ ~option.commands.given
  THEN Some("App option must include either rootCommand or commands property")
  ELSE IF ~option.rootCommand.some /\ option.commands.isArray /\ Len(option.commands.list) = 0
  THEN Some("App option commands array cannot be empty")
  ELSE None

\* the execName a scan of validateCommands finds for the second time, if any
RECURSIVE validateCommands(_)
RECURSIVE ScanCommands(_, _, _)
ScanCommands(commands, i, execNames) ==
  IF i > Len(commands) THEN None
  ELSE LET command == commands[i]
       IN IF command.exec.name \in execNames
          THEN Some(command.exec.name)
          ELSE LET below == IF command.subCommands.present
                            THEN validateCommands(command.subCommands.list)
                            ELSE None
               IN IF below.some THEN below
                  ELSE ScanCommands(commands, i + 1, execNames \cup {command.exec.name})

\* validateCommands(commands): the duplicate execName it throws for, if it throws
validateCommands(commands) == ScanCommands(commands, 1, {})

----------------------------------------------------------------------------
(* index.ts: createRuntime *)

\* command.exec.arguments and command.exec.flags: the first command of a
\* level, the later ones and the root command declare different parameters
ExecParameters(command) ==
  IF command.id = <<0>> THEN <<Some(<<ArgRest>>), Some(<<>>)>>
  ELSE IF command.id[Len(command.id)] = 1 THEN <<Some(<<ArgX2>>), Some(<<FlagV>>)>>
  ELSE <<Some(<<>>), Some(<<FlagVArray>>)>>

\* appParserOptions?.field ?? fallback
OrElse(appParserOptions, field, fallback) ==
  IF appParserOptions.some /\ appParserOptions.val[field].some
  THEN appParserOptions.val[field]
  ELSE Some(fallback)

\* the parser options of a parser that leaves the parameters of the command out
createCommandParserBare(command, appParserOptions) ==
  ParserOption(OrElse(appParserOptions, "resolveAlias", TRUE),
               OrElse(appParserOptions, "resolveFlagAfterArgument", TRUE),
               OrElse(appParserOptions, "resolveUnknown", "ignore"),
               Some(<<>>), Some(<<>>))

\* createCommandParser(command, appParserOptions): the options it hands to createParser
createCommandParser(command, appParserOptions) ==
  ParserOption(OrElse(appParserOptions, "resolveAlias", TRUE),
               OrElse(appParserOptions, "resolveFlagAfterArgument", TRUE),
               OrElse(appParserOptions, "resolveUnknown", "ignore"),
               ExecParameters(command)[1], ExecParameters(command)[2])

\* topLevelCommands of createRuntime
TopLevelCommands(option) == option.commands.list

\* the inputs of createRuntime and of its runner
AppTexts == {None, Some(<<>>), Some(<<" ">>), Some(<<"v">>)}

AppForests == UNION {{Label(f, <<>>) : f \in ShapesOfSize(n)} : n \in 0..MaxCommands}

AppCommands ==
  {NoCommands} \cup {CommandArray(f) : f \in AppForests}
               \cup {OneCommand(f[1]) : f \in {g \in AppForests : Len(g) = 1}}

AppParserOptions ==
  { None,
    Some([resolveAlias |-> None, resolveFlagAfterArgument |-> None, resolveUnknown |-> None]),
    Some([resolveAlias |-> Some(FALSE), resolveFlagAfterArgument |-> None,
          resolveUnknown |-> None]),
    Some([resolveAlias |-> None, resolveFlagAfterArgument |-> Some(FALSE),
          resolveUnknown |-> None]),
    Some([resolveAlias |-> None, resolveFlagAfterArgument |-> None,
          resolveUnknown |-> Some("block")]) }

AppOptions ==
  { AppOption(name, description, version, rootCommand, commands, parserOptions) :
      name \in AppTexts, description \in AppTexts, version \in AppTexts,
      rootCommand \in {None, Some(RootCommand)}, commands \in AppCommands,
      parserOptions \in AppParserOptions }

RunnerTokens == CommandNames \cup { <<"-", "-", "v">>, <<"f">> }

RunnerArgvs ==
  { << <<"n", "o", "d", "e">>, <<"s">> >> \o tokens : tokens \in SeqsUpTo(RunnerTokens, MaxRun) }

\* no app yet / no invocation in progress
BlankOption == AppOption(None, None, None, None, NoCommands, None)

NoInvocation ==
  /\ rArgs = <<>>
  /\ rMatch = MatchState(None, <<>>, <<>>)
  /\ rParsed = NoOutcome
  /\ rError = ""

RuntimeIdle ==
  /\ rPc = "none"
  /\ rOption = BlankOption
  /\ rHandled = <<>>
  /\ NoInvocation

\* createRuntime(option): validateAppOption, then the runner
CreateRuntime ==
  /\ rPc = "none"
  /\ mPc = "idle"
  /\ vPc = "none"
  /\ pPc = "none"
  /\ \E option \in AppOptions :
       LET thrown == validateAppOption(option)
       IN IF thrown.some
          THEN /\ rPc' = "invalid"
               /\ rError' = thrown.val
               /\ rOption' = rOption
          ELSE /\ rPc' = "ready"
               /\ rError' = rError
               /\ rOption' = option
  /\ UNCHANGED <<rArgs, rMatch, rParsed, rHandled>>
  /\ UNCHANGED matcherVars
  /\ UNCHANGED resolverVars
  /\ UNCHANGED parserVars
  /\ UNCHANGED sharedVars

\* runner(argv): args = argv ?? processArgv
RunnerCall ==
  /\ rPc = "ready"
  /\ \E argv \in {None} \cup {Some(a) : a \in RunnerArgvs}, processArgv \in RunnerArgvs :
       rArgs' = IF argv.some THEN argv.val ELSE processArgv
  /\ rPc' = "called"
  /\ rHandled' = <<>>
  /\ UNCHANGED <<rOption, rMatch, rParsed, rError>>
  /\ UNCHANGED matcherVars
  /\ UNCHANGED resolverVars
  /\ UNCHANGED parserVars
  /\ UNCHANGED sharedVars

\* matchCommands(args, topLevelCommands, option.rootCommand), then the test
\* of matchResult.command
RunnerMatch ==
  /\ rPc = "called"
  /\ LET matchResult == matchCommands(rArgs, TopLevelCommands(rOption), rOption.rootCommand, 2)
     IN IF matchResult.threw
        THEN /\ rPc' = "rejected"
             /\ rError' = matchResult.message
             /\ rMatch' = rMatch
        ELSE IF ~matchResult.command.some
        THEN /\ rPc' = "rejected"
             /\ rError' = "No command found"
             /\ rMatch' = matchResult
        ELSE /\ rPc' = "matched"
             /\ rError' = rError
             /\ rMatch' = matchResult
  /\ UNCHANGED <<rOption, rArgs, rParsed, rHandled>>
  /\ UNCHANGED matcherVars
  /\ UNCHANGED resolverVars
  /\ UNCHANGED parserVars
  /\ UNCHANGED sharedVars

\* createCommandParser(matchResult.command, option.parserOptions), then
\* parser(matchResult.remainingArgs)
RunnerParse ==
  /\ rPc = "matched"
  /\ LET parser == createParserContext(createCommandParser(rMatch.command.val,
                                                           rOption.parserOptions))
         parsedContext == Parse(rMatch.remainingArgs, parser)
     IN IF parsedContext.status = "threw"
        THEN /\ rPc' = "rejected"
             /\ rError' = parsedContext.error.kind
             /\ rParsed' = parsedContext
        ELSE /\ rPc' = "parsed"
             /\ rError' = rError
             /\ rParsed' = parsedContext
  /\ UNCHANGED <<rOption, rArgs, rMatch, rHandled>>
  /\ UNCHANGED matcherVars
  /\ UNCHANGED resolverVars
  /\ UNCHANGED parserVars
  /\ UNCHANGED sharedVars

\* await matchResult.command.handler(parsedContext): the handler resolves or rejects
RunnerHandle ==
  /\ rPc = "parsed"
  /\ rHandled' = Append(rHandled, [command |-> rMatch.command.val.id,
                                   context |-> rParsed.result])
  /\ \E settled \in {"resolved", "rejected"} :
       /\ rPc' = settled
       /\ rError' = IF settled = "rejected" THEN "handler" ELSE rError
  /\ UNCHANGED <<rOption, rArgs, rMatch, rParsed>>
  /\ UNCHANGED matcherVars
  /\ UNCHANGED resolverVars
  /\ UNCHANGED parserVars
  /\ UNCHANGED sharedVars

\* the promise of the runner has settled; the runner can be invoked again
RunnerSettle ==
  /\ rPc \in {"resolved", "rejected"}
  /\ rPc' = "ready"
  /\ rArgs' = <<>>
  /\ rMatch' = MatchState(None, <<>>, <<>>)
  /\ rParsed' = NoOutcome
  /\ rError' = ""
  /\ rHandled' = <<>>
  /\ UNCHANGED rOption
  /\ UNCHANGED matcherVars
  /\ UNCHANGED resolverVars
  /\ UNCHANGED parserVars
  /\ UNCHANGED sharedVars

RuntimeNext ==
  \/ CreateRuntime
  \/ RunnerCall
  \/ RunnerMatch
  \/ RunnerParse
  \/ RunnerHandle
  \/ RunnerSettle

----------------------------------------------------------------------------
(* Specifications *)

Init == MatcherIdle /\ ParserIdle /\ SharedIdle /\ RuntimeIdle /\ ResolverIdle

\* the matcher alone
SpecMatcher == Init /\ [][MatcherNext]_vars

\* a parser alone
SpecParser == Init /\ [][ParserNext]_vars

MaxRepeat == 4

\* the tokens of the longer token lists: --p, --u, -V, f
RepeatTokens == { <<"-", "-", "p">>, <<"-", "-", "u">>, <<"-", "V">>, <<"f">> }

\* token lists long enough to give a flag that takes a value twice
RepeatArgvs == {argv \in SeqsUpTo(RepeatTokens, MaxRepeat) : Len(argv) = MaxRepeat}

\* parser(argv) with one of the longer token lists: _parse up to the while loop
CallParserRepeated ==
  /\ pPc = "ready"
  /\ \E argv \in RepeatArgvs : pArgv' = argv
  /\ pState' = createInitialState(pContext)
  /\ pEncountered' = FALSE
  /\ pTrace' = <<>>
  /\ pPc' = "loop"
  /\ UNCHANGED <<pContext, pOutcome>>
  /\ UNCHANGED matcherVars
  /\ UNCHANGED resolverVars
  /\ UNCHANGED runtimeVars
  /\ UNCHANGED sharedVars

\* one pass through the body of the while loop, or the exit from it
LoopStep == LoopParseFlag \/ LoopFlagAfterArgument \/ LoopParseArgument \/ LoopExit

\* _parse is synchronous: once called it runs on until it returns or throws
SpecParserLive == SpecParser /\ WF_vars(LoopStep)

\* parses of the longer token lists
RepeatNext == CreateParser \/ CallParserRepeated \/ LoopStep \/ ParserReturn

SpecRepeat == Init /\ [][RepeatNext]_vars

\* calls of one parser side by side
SpecShared == Init /\ [][SharedNext]_vars

\* createParserContext and createInitialState on their own
SpecContext == Init /\ [][ContextNext]_vars

\* an app: createRuntime and the invocations of its runner
SpecRuntime == Init /\ [][RuntimeNext]_vars

\* resolveValue on its own
SpecResolver == Init /\ [][ResolverNext]_vars

\* the library: calls of the matcher and of a parser never overlap
Next ==
  \/ MatcherNext \/ ParserNext \/ SharedNext \/ RuntimeNext \/ ContextNext \/ ResolverNext
  \/ CallParserRepeated

Spec == Init /\ [][Next]_vars

----------------------------------------------------------------------------
(* Properties of the matcher *)

\* the 1-based positions of the commands of a level whose execution name is token
Hits(level, token) == {i \in 1..Len(level) : level[i].exec.name = token}

\* the least element of a non-empty set of numbers
Least(S) == CHOOSE i \in S : \A j \in S : i <= j

\* the sibling list reached from forest by the positions in prefix
RECURSIVE SiblingsAt(_, _)
SiblingsAt(forest, prefix) ==
  IF prefix = <<>> THEN forest
  ELSE SiblingsAt(forest[Head(prefix)].subCommands.list, Tail(prefix))

\* the call that just returned had a token at its index
HasToken == mIndex < Len(mArgv)

\* that token names at least one command of the level the call was given
TopLevelHit == HasToken /\ Hits(mCommands, At(mArgv, mIndex)) # {}

\* the result carries a command found by the walk (not the root command)
WalkFound == ~mResult.threw /\ mResult.command.some /\ mResult.command.val.id # <<0>>

\* C1: DFSMatch, on a token equal to a node's execution name, returns the
\* recursive match over the node's subcommands at index+1 when the node has a
\* non-empty subcommand list in which that recursion finds a command, and in
\* every other case the node itself with remainingArgs = argv[index+1..] and
\* matchedPath = path followed by the token.
C1_DeeperMatchWins ==
  (mPc = "DFSMatch" /\ TopLevelHit) =>
    LET token == At(mArgv, mIndex)
        node == mCommands[Least(Hits(mCommands, token))]
        newPath == Append(mPath, token)
        sub == node.subCommands
        deeperFinds == /\ sub.present
                       /\ Len(sub.list) > 0
                       /\ mIndex + 1 < Len(mArgv)
                       /\ Hits(sub.list, At(mArgv, mIndex + 1)) # {}
    IN IF deeperFinds
       THEN /\ mResult = DFSMatch(mArgv, sub.list, mIndex + 1, newPath)
            /\ mResult.command.some
            /\ Len(mResult.command.val.id) > Len(node.id)
       ELSE mResult = MatchState(Some(node), Slice(mArgv, mIndex + 1), newPath)

\* C1 witness: a DFSMatch call given a non-empty path returned a command two
\* levels down whose own non-empty subcommand list matched nothing.
C1_Witness ==
  /\ mPc = "DFSMatch"
  /\ mPath # <<>>
  /\ WalkFound
  /\ Len(mResult.command.val.id) = 2
  /\ Len(mResult.command.val.subCommands.list) > 0
  /\ Len(mResult.remainingArgs) > 0
  /\ Len(mResult.matchedPath) = Len(mPath) + 2

\* C2: at every level the command selected is the first one in declaration
\* order whose execution name equals the token of that level, also when its
\* subtree yields no deeper match; a token that names a top-level command
\* always selects one.
C2_FirstEqualSiblingWins ==
  /\ (mPc \in {"DFSMatch", "matchCommands"} /\ WalkFound) =>
       LET id == mResult.command.val.id
       IN \A k \in 1..Len(id) :
            LET level == SiblingsAt(mCommands, SubSeq(id, 1, k - 1))
                token == At(mArgv, mIndex + k - 1)
            IN /\ mIndex + k - 1 < Len(mArgv)
               /\ level[id[k]].exec.name = token
               /\ \A i \in 1..(id[k] - 1) : level[i].exec.name # token
  /\ (mPc \in {"DFSMatch", "matchCommands"} /\ TopLevelHit) => WalkFound

\* C2 witness: the first of two siblings with the same name was returned
\* although its non-empty subcommand list matched nothing.
C2_Witness ==
  /\ mPc = "DFSMatch"
  /\ WalkFound
  /\ mResult.command.val.id = <<1>>
  /\ Len(mResult.command.val.subCommands.list) > 0
  /\ Len(mResult.remainingArgs) > 0
  /\ Len(mCommands) >= 2
  /\ mCommands[2].exec.name = mCommands[1].exec.name

\* C3: matchCommands with top-level commands and a root command returns the
\* root command with remainingArgs = argv[startIndex..] and an empty
\* matchedPath whenever the first token names no top-level command or there is
\* no token at startIndex.
C3_RootFallback ==
  (mPc = "matchCommands" /\ Len(mCommands) > 0 /\ mRoot.some /\ ~TopLevelHit) =>
    mResult = MatchState(mRoot, Slice(mArgv, mIndex), <<>>)

\* C3 witness: a walk over top-level commands failed on a token and the root
\* command was returned with that token still in remainingArgs.
C3_Witness ==
  /\ mPc = "matchCommands"
  /\ Len(mCommands) > 0
  /\ mRoot.some
  /\ HasToken
  /\ ~TopLevelHit
  /\ mResult.command = mRoot
  /\ Len(mResult.remainingArgs) >= 2

\* C4: matchCommands with no top-level command and a root command returns
\* the root command with remainingArgs = argv[startIndex..] and an empty
\* matchedPath, for every token list.
C4_RootOnly ==
  (mPc = "matchCommands" /\ Len(mCommands) = 0 /\ mRoot.some) =>
    mResult = MatchState(mRoot, Slice(mArgv, mIndex), <<>>)

\* C4 witness: a root-only call returned the root command with tokens left.
C4_Witness ==
  /\ mPc = "matchCommands"
  /\ Len(mCommands) = 0
  /\ mRoot.some
  /\ mResult.command = mRoot
  /\ mIndex = 1
  /\ Len(mResult.remainingArgs) = 2

\* C5: matchCommands throws 'No commands available for matching' if and only
\* if it has neither a top-level command nor a root command, whatever argv is.
C5_ConfigurationError ==
  mPc = "matchCommands" =>
    /\ mResult.threw <=> (Len(mCommands) = 0 /\ ~mRoot.some)
    /\ mResult.threw => mResult = Threw("No commands available for matching")

\* C5 witness: the configuration error was raised on a non-empty argv.
C5_Witness ==
  /\ mPc = "matchCommands"
  /\ mResult.threw
  /\ Len(mArgv) > mIndex

\* C6: matchCommands with top-level commands and no root command, when the
\* walk matches nothing, does not throw and returns no command; when the
\* first token names no top-level command, remainingArgs = argv[startIndex..]
\* and matchedPath is empty.
C6_NoMatchNoRoot ==
  (mPc = "matchCommands" /\ Len(mCommands) > 0 /\ ~mRoot.some /\ ~TopLevelHit) =>
    /\ ~mResult.threw
    /\ ~mResult.command.some
    /\ HasToken => /\ mResult.remainingArgs = Slice(mArgv, mIndex)
                   /\ mResult.matchedPath = <<>>

\* C6 witness: a walk without a root command failed on a token and returned a
\* result without a command that still holds the token.
C6_Witness ==
  /\ mPc = "matchCommands"
  /\ Len(mCommands) > 0
  /\ ~mRoot.some
  /\ HasToken
  /\ ~TopLevelHit
  /\ ~mResult.threw
  /\ ~mResult.command.some
  /\ Len(mResult.remainingArgs) >= 1

\* C23: DFSMatch called with an index at or past the end of argv returns no
\* command, an empty remainingArgs and the path it was given, whatever the
\* commands of the level are.
C23_IndexPastEnd ==
  (mPc = "DFSMatch" /\ mIndex >= Len(mArgv)) =>
    mResult = MatchState(None, <<>>, mPath)

\* C23 witness: DFSMatch was called past the end of a non-empty argv whose
\* first token names a command of the level, with a non-empty path, and
\* returned that path without a command.
C23_Witness ==
  /\ mPc = "DFSMatch"
  /\ Len(mArgv) = 1
  /\ mIndex = 2
  /\ Len(mCommands) > 0
  /\ mCommands[1].exec.name = mArgv[1]
  /\ mPath # <<>>
  /\ ~mResult.command.some
  /\ mResult.matchedPath = mPath

\* the call that just returned began its walk with an empty path
FromEmptyPath == mPc = "matchCommands" \/ (mPc = "DFSMatch" /\ mPath = <<>>)

\* C33: every result of matchCommands, or of DFSMatch called with an empty
\* path, that carries a command found by the walk has a matchedPath of length
\* k >= 1 equal to argv[startIndex .. startIndex+k-1] and remainingArgs equal
\* to argv[startIndex+k ..], so that matchedPath followed by remainingArgs is
\* argv[startIndex ..]; the command's execution name is the last element of
\* matchedPath and the command lies at depth k of the forest along that path.
C33_PathAndRestSplitArgv ==
  (FromEmptyPath /\ WalkFound) =>
    LET k == Len(mResult.matchedPath)
        id == mResult.command.val.id
    IN /\ k >= 1
       /\ mIndex + k <= Len(mArgv)
       /\ mResult.matchedPath = SubSeq(mArgv, mIndex + 1, mIndex + k)
       /\ mResult.remainingArgs = Slice(mArgv, mIndex + k)
       /\ mResult.matchedPath \o mResult.remainingArgs = Slice(mArgv, mIndex)
       /\ mResult.command.val.exec.name = mResult.matchedPath[k]
       /\ Len(id) = k
       /\ \A j \in 1..k :
            SiblingsAt(mCommands, SubSeq(id, 1, j - 1))[id[j]].exec.name = mResult.matchedPath[j]
       /\ SiblingsAt(mCommands, SubSeq(id, 1, k - 1))[id[k]] = mResult.command.val

\* C33 witness: matchCommands, started at index 1 of three tokens, returned a
\* command two levels down: the path holds the two tokens after the first and
\* nothing remains.
C33_Witness ==
  /\ mPc = "matchCommands"
  /\ WalkFound
  /\ mIndex = 1
  /\ Len(mArgv) = 3
  /\ mResult.matchedPath = <<mArgv[2], mArgv[3]>>
  /\ mResult.remainingArgs = <<>>
  /\ Len(mResult.command.val.id) = 2
  /\ mArgv[2] # mArgv[3]

----------------------------------------------------------------------------
(* Properties of the parser *)

\* the loop of the call in progress stands on a token
AtToken == pPc = "loop" /\ pState.currentIndex < Len(pArgv)

\* that token
Token == At(pArgv, pState.currentIndex)

\* a token that begins with a dash
Dashed(token) == Head(token) = "-"

\* the text of a dashed token after its one or two leading dashes
Stripped(token) ==
  IF Len(token) >= 2 /\ token[2] = "-" THEN SubSeq(token, 3, Len(token))
  ELSE SubSeq(token, 2, Len(token))

\* an argument token was processed by one of the first k iterations of the loop
ArgumentProcessed(k) == \E j \in 1..k : ~Dashed(At(pArgv, pTrace[j].at))

\* the flag token the loop stands on comes too late
TooLate ==
  /\ ArgumentProcessed(Len(pTrace))
  /\ pContext.options.resolveFlagAfterArgument = Some(FALSE)

\* every declared positional slot is filled, or none is declared
SlotsFilled ==
  \/ ~pContext.options.arguments.some
  \/ pState.currentArgIndex >= Len(pContext.options.arguments.val)

\* the call in progress has just thrown this error
Fails(kind, subject) ==
  /\ pPc = "threw"
  /\ pOutcome.status = "threw"
  /\ pOutcome.error = [kind |-> kind, subject |-> subject]

\* the step ends the call by throwing this error
FailsNext(kind, subject) ==
  /\ pPc' = "threw"
  /\ pOutcome'.status = "threw"
  /\ pOutcome'.error = [kind |-> kind, subject |-> subject]

\* C7: with resolveFlagAfterArgument false, every flag token the loop reaches
\* after an argument token has been processed ends the parse with 'Flag
\* <token> cannot appear after arguments', under every resolveUnknown policy and
\* whether or not the flag is declared.
C7_FlagAfterArgumentBlocked ==
  pContext.options.resolveFlagAfterArgument = Some(FALSE) =>
    \A k \in 1..Len(pTrace) :
      (Dashed(At(pArgv, pTrace[k].at)) /\ ArgumentProcessed(k - 1)) =>
        /\ k = Len(pTrace)
        /\ Fails("Flag cannot appear after arguments", At(pArgv, pTrace[k].at))

\* C7 witness: under the 'include' policy an undeclared flag that follows an
\* argument was rejected with the structural error.
C7_Witness ==
  /\ Fails("Flag cannot appear after arguments", <<"-", "-", "u">>)
  /\ pContext.options.resolveUnknown = Some("include")
  /\ <<"u">> \notin DOMAIN pContext.flagLookup
  /\ Len(pTrace) = 2
  /\ ~Dashed(At(pArgv, 0))

\* C8: parseFlag under 'include' on a flag token whose stripped name is not in
\* flagLookup records the token in the unknown-flags bucket under the stripped
\* name with the token text as value, leaves the flags map unchanged and
\* advances the cursor by exactly one.
C8_UnknownFlagIncluded ==
  [][ ( /\ AtToken
        /\ Dashed(Token)
        /\ ~TooLate
        /\ pContext.options.resolveUnknown = Some("include")
        /\ Stripped(Token) \notin DOMAIN pContext.flagLookup )
      => /\ pState'.result.unknownFlags =
              MapSet(pState.result.unknownFlags, Stripped(Token), Token)
         /\ pState'.result.flags = pState.result.flags
         /\ pState'.currentIndex = pState.currentIndex + 1 ]_vars

\* C9: parseArgument under 'include' on an argument token met when every
\* declared positional slot is filled appends the raw token to the
\* unknown-arguments list, leaves the arguments map and argumentCursor
\* unchanged and advances the cursor by exactly one.
C9_ExcessArgumentIncluded ==
  [][ ( /\ AtToken
        /\ ~Dashed(Token)
        /\ pContext.options.resolveUnknown = Some("include")
        /\ SlotsFilled )
      => /\ pState'.result.unknownArguments = Append(pState.result.unknownArguments, Token)
         /\ pState'.result.arguments = pState.result.arguments
         /\ pState'.currentArgIndex = pState.currentArgIndex
         /\ pState'.currentIndex = pState.currentIndex + 1 ]_vars

\* C10 as stated: under 'block' the parse fails with 'Unknown flag: <token>'
\* at every flag token the loop reaches whose stripped name is not in
\* flagLookup, and with 'Unexpected argument: <token>' at every argument token
\* it reaches beyond the declared positional slots.
C10_BlockAsStated ==
  [][ (AtToken /\ pContext.options.resolveUnknown = Some("block")) =>
        /\ (Dashed(Token) /\ Stripped(Token) \notin DOMAIN pContext.flagLookup)
             => FailsNext("Unknown flag", Token)
        /\ (~Dashed(Token) /\ SlotsFilled)
             => FailsNext("Unexpected argument", Token) ]_vars

\* C10 amended: as stated, except that an unknown flag token reached after an
\* argument token while resolveFlagAfterArgument is false is rejected by the
\* main loop before it is looked up.
C10_BlockUnknownToken ==
  [][ (AtToken /\ pContext.options.resolveUnknown = Some("block")) =>
        /\ (Dashed(Token) /\ Stripped(Token) \notin DOMAIN pContext.flagLookup)
             => IF TooLate
                THEN FailsNext("Flag cannot appear after arguments", Token)
                ELSE FailsNext("Unknown flag", Token)
        /\ (~Dashed(Token) /\ SlotsFilled)
             => FailsNext("Unexpected argument", Token) ]_vars

\* C10 witness: under 'block' the declared positional was filled and the
\* next argument token was rejected.
C10_Witness ==
  /\ Fails("Unexpected argument", <<"g">>)
  /\ pContext.options.resolveUnknown = Some("block")
  /\ pContext.options.arguments.some
  /\ pState.currentArgIndex = 1
  /\ Len(pTrace) = 2

\* the policy is 'ignore', given or by omission
Ignoring == pContext.options.resolveUnknown \in {None, Some("ignore")}

\* the configuration declares no parameter
NothingDeclared ==
  /\ ~pContext.options.arguments.some \/ pContext.options.arguments.val = <<>>
  /\ ~pContext.options.flags.some \/ pContext.options.flags.val = <<>>

\* the token the loop stands on is a flag whose stripped name is not in
\* flagLookup, or an argument beyond the declared positional slots
UnknownToken ==
  IF Dashed(Token) THEN Stripped(Token) \notin DOMAIN pContext.flagLookup ELSE SlotsFilled

\* C11 as stated: with resolveUnknown 'ignore' or omitted, every unknown flag
\* token and every excess argument token the loop reaches leaves the whole
\* result unchanged and advances the cursor by exactly one; with no declared
\* parameters every parse returns, with empty argument and flag maps.
C11_IgnoreAsStated ==
  [][ (AtToken /\ Ignoring) =>
        /\ UnknownToken => /\ pState'.result = pState.result
                           /\ pState'.currentIndex = pState.currentIndex + 1
        /\ NothingDeclared => pPc' # "threw" ]_vars

\* C11 amended: with resolveUnknown 'ignore' or omitted, an unknown flag
\* token or an excess argument token leaves the whole result unchanged and
\* advances the cursor by exactly one, unless it is a flag reached after an
\* argument token while resolveFlagAfterArgument is false, which ends the
\* parse with the structural error; with no declared parameters that error is
\* the only failure, and every result returned has empty argument and flag
\* maps and empty unknown buckets.
C11_IgnoreUnknownToken ==
  [][ Ignoring =>
        /\ (AtToken /\ UnknownToken) =>
             IF Dashed(Token) /\ TooLate
             THEN FailsNext("Flag cannot appear after arguments", Token)
             ELSE /\ pState'.result = pState.result
                  /\ pState'.currentIndex = pState.currentIndex + 1
                  /\ pPc' = "loop"
        /\ NothingDeclared =>
             /\ pPc' = "threw" => AtToken /\ Dashed(Token) /\ TooLate
             /\ pPc' = "returned" =>
                  pOutcome'.result = Result(EmptyMap, EmptyMap, <<>>, EmptyMap) ]_vars

\* C11 witness: with the policy omitted and a flag declared, a parse that met
\* an unknown flag and then an excess argument returned the initial result.
C11_Witness ==
  /\ pPc = "returned"
  /\ pContext.options.resolveUnknown = None
  /\ pContext.options.flags.some
  /\ pContext.options.flags.val # <<>>
  /\ pArgv = << <<"-", "-", "u">>, <<"f">> >>
  /\ Len(pTrace) = 2
  /\ pOutcome.result = createInitialState(pContext).result

\* the declared flags
DeclaredFlags ==
  IF pContext.options.flags.some
  THEN {pContext.options.flags.val[i] : i \in 1..Len(pContext.options.flags.val)}
  ELSE {}

\* the names registered for a declared flag: its canonical name and the
\* aliases that flagLookup maps to it
RegisteredNames(flagOpt) ==
  {n \in DOMAIN pContext.flagLookup : pContext.flagLookup[n] = flagOpt.name}

\* the token the loop stands on is handed to parseFlag and names this flag
NamesFlag(flagOpt) ==
  /\ AtToken
  /\ Dashed(Token)
  /\ ~TooLate
  /\ Stripped(Token) \in RegisteredNames(flagOpt)

\* some token of argv names this flag by a registered name
Mentioned(flagOpt) ==
  \E i \in 1..Len(pArgv) : Dashed(pArgv[i]) /\ Stripped(pArgv[i]) \in RegisteredNames(flagOpt)

\* the token loop of the call in progress has consumed all tokens
LoopDone ==
  \/ pPc = "returned"
  \/ pPc = "loop" /\ pState.currentIndex >= Len(pArgv)

C13_FlagWithValue ==
  [][ \A flagOpt \in DeclaredFlags :
        ( /\ flagOpt.resolver # Boolean
          /\ NamesFlag(flagOpt)
          /\ pState.currentIndex + 1 < Len(pArgv) ) =>
          /\ pState'.result =
               [pState.result EXCEPT
                  !.flags = MapSet(@, flagOpt.name,
                                   resolveValue(At(pArgv, pState.currentIndex + 1),
                                                flagOpt.resolver))]
          /\ pState'.currentIndex = pState.currentIndex + 2
          /\ pPc' = "loop" ]_vars

\* C13 witness: flag p given by its alias u took the following token through
\* its resolver chain; the entry is under p and the loop moved on by two.
C13_Witness ==
  /\ pPc = "returned"
  /\ pArgv = << <<"-", "-", "u">>, <<"f">> >>
  /\ <<"u">> \in DOMAIN pContext.flagLookup
  /\ pTrace = << [at |-> 0, by |-> "parseFlag", next |-> 2] >>
  /\ MapGet(pOutcome.result.flags, <<"p">>) =
       Scalar(<<"string", "call", "trim", "new", "Number">>, <<"f">>)
  /\ <<"u">> \notin DOMAIN pOutcome.result.flags

\* C14: parseFlag on a token that names a declared non-Boolean flag and is the
\* last token of the input ends the parse with 'Flag <token> requires a
\* value', naming the token as written; no result is returned and the result
\* under construction is left as it was.
C14_FlagMissingValue ==
  [][ \A flagOpt \in DeclaredFlags :
        ( /\ flagOpt.resolver # Boolean
          /\ NamesFlag(flagOpt)
          /\ pState.currentIndex + 1 >= Len(pArgv) ) =>
          /\ FailsNext("Flag requires a value", Token)
          /\ pOutcome'.result = NoOutcome.result
          /\ pState'.result = pState.result ]_vars

\* C14 witness: flag p given by its alias as the last token, after a Boolean
\* flag; the error names the alias token and p has no value.
C14_Witness ==
  /\ Fails("Flag requires a value", <<"-", "-", "u">>)
  /\ pArgv = << <<"-", "V">>, <<"-", "-", "u">> >>
  /\ <<"u">> \in DOMAIN pContext.flagLookup
  /\ pContext.flagLookup[<<"u">>] = <<"p">>
  /\ MapGet(pState.result.flags, <<"p">>) = Undefined

\* the loop stands on an argument token while a declared positional slot is free
AtFreeSlot == AtToken /\ ~Dashed(Token) /\ ~SlotsFilled

\* the positional spec at argumentCursor, in declaration order
SlotSpec == pContext.options.arguments.val[pState.currentArgIndex + 1]

\* the tokens argv[from], ..., argv[from + n - 1], each resolved on its own
ResolvedRun(from, n, resolver) ==
  [i \in 1..n |-> resolveValue(At(pArgv, from + i - 1), resolver)]

\* C15: parseArgument when the positional spec at argumentCursor has count
\* 'all': every token from the cursor to the end of the input, dashed or not,
\* is resolved on its own through the spec's resolver and the sequence, in
\* input order, is stored under the spec's name; nothing else in the result
\* changes and the cursor is set to the end of the input, so the loop ends.
C15_RestArgument ==
  [][ (AtFreeSlot /\ SlotSpec.count.all) =>
        /\ pState'.result =
             [pState.result EXCEPT
                !.arguments = MapSet(@, SlotSpec.name,
                                Array(ResolvedRun(pState.currentIndex,
                                                  Len(pArgv) - pState.currentIndex,
                                                  SlotSpec.resolver)))]
        /\ pState'.currentIndex = Len(pArgv)
        /\ pPc' = "loop" ]_vars

\* C15 witness: a rest positional took three tokens, a dashed one among
\* them, in one step and the parse returned them in input order.
C15_Witness ==
  /\ pPc = "returned"
  /\ pArgv = << <<"f">>, <<"-", "-", "v">>, <<"g">> >>
  /\ pTrace = << [at |-> 0, by |-> "parseArgument", next |-> 3] >>
  /\ MapGet(pOutcome.result.arguments, <<"r">>) =
       Array(<< Scalar(<<"string", "new", "String">>, <<"f">>),
                Scalar(<<"string", "new", "String">>, <<"-", "-", "v">>),
                Scalar(<<"string", "new", "String">>, <<"g">>) >>)

\* the count N of the positional spec at argumentCursor: 1 when none is given
SlotCount == IF SlotSpec.count.n = 0 THEN 1 ELSE SlotSpec.count.n

\* the number of tokens from the cursor to the end of the input
TokensLeft == Len(pArgv) - pState.currentIndex

\* the number of tokens a spec of count N consumes
Taken == IF SlotCount < TokensLeft THEN SlotCount ELSE TokensLeft

\* C16: parseArgument when a declared slot is free and the spec at
\* argumentCursor, in declaration order, has a count N (1 if none is given):
\* it consumes min(N, tokens left) tokens, stores under the spec's name the
\* resolved token itself when N = 1 and otherwise the sequence of exactly the
\* tokens consumed, changes nothing else in the result, advances
\* argumentCursor by one and the cursor by the number of tokens consumed, and
\* raises no error.
C16_CountedArgument ==
  [][ (AtFreeSlot /\ ~SlotSpec.count.all) =>
        /\ pState'.result =
             [pState.result EXCEPT
                !.arguments =
                   MapSet(@, SlotSpec.name,
                          IF SlotCount = 1
                          THEN resolveValue(Token, SlotSpec.resolver)
                          ELSE Array(ResolvedRun(pState.currentIndex, Taken,
                                                 SlotSpec.resolver)))]
        /\ pState'.currentArgIndex = pState.currentArgIndex + 1
        /\ pState'.currentIndex = pState.currentIndex + Taken
        /\ pPc' = "loop" ]_vars

\* C16 witness: a positional of count 2 met a single remaining token and the
\* parse returned a sequence of that one token, with the slot used up.
C16_Witness ==
  /\ pPc = "returned"
  /\ pArgv = << <<"-", "V">>, <<"f">> >>
  /\ pContext.options.arguments.some
  /\ Len(pContext.options.arguments.val) >= 1
  /\ pContext.options.arguments.val[1].count = CountOf(2)
  /\ pState.currentArgIndex = 1
  /\ pTrace[2] = [at |-> 1, by |-> "parseArgument", next |-> 2]
  /\ MapGet(pOutcome.result.arguments, <<"x">>) =
       Array(<< Scalar(<<"string", "new", "String">>, <<"f">>) >>)

\* the declared positionals
DeclaredArguments ==
  IF pContext.options.arguments.some
  THEN {pContext.options.arguments.val[i] : i \in 1..Len(pContext.options.arguments.val)}
  ELSE {}

\* the names of the required positionals / flags whose entry is unset
MissingArguments ==
  {a.name : a \in {d \in DeclaredArguments :
                     d.required = Some(TRUE) /\ MapGet(pState.result.arguments, d.name) = Undefined}}

MissingFlags ==
  {f.name : f \in {d \in DeclaredFlags :
                     d.required = Some(TRUE) /\ MapGet(pState.result.flags, d.name) = Undefined}}

\* the two missing-required errors
RequiredErrors == {"Required argument is missing", "Required flag is missing"}

\* C17: required parameters are validated once, when the token loop has
\* consumed all tokens: no step on a token raises a missing-required error; at
\* the end of the loop the parse fails with a missing-required error naming a
\* required positional or flag whose entry is unset if there is one, and
\* otherwise returns the result; a returned result has a set entry for every
\* required parameter.
C17_RequiredValidation ==
  /\ [][ /\ AtToken => (pPc' = "threw" => pOutcome'.error.kind \notin RequiredErrors)
         /\ (pPc = "loop" /\ ~AtToken) =>
              IF MissingArguments \cup MissingFlags = {}
              THEN /\ pPc' = "returned"
                   /\ pOutcome'.result = pState.result
              ELSE /\ pPc' = "threw"
                   /\ pOutcome'.result = NoOutcome.result
                   /\ \/ /\ pOutcome'.error.kind = "Required argument is missing"
                         /\ pOutcome'.error.subject \in MissingArguments
                      \/ /\ pOutcome'.error.kind = "Required flag is missing"
                         /\ pOutcome'.error.subject \in MissingFlags ]_vars
  /\ [](pPc = "returned" =>
          /\ \A a \in DeclaredArguments :
               a.required = Some(TRUE) => MapGet(pOutcome.result.arguments, a.name) # Undefined
          /\ \A f \in DeclaredFlags :
               f.required = Some(TRUE) => MapGet(pOutcome.result.flags, f.name) # Undefined)

\* C17 witness: the required positional was given, the required flag was
\* not; the loop consumed every token and the parse then failed naming the flag.
C17_Witness ==
  /\ Fails("Required flag is missing", <<"p">>)
  /\ pArgv = << <<"f">>, <<"-", "-", "v">> >>
  /\ Len(pTrace) = 2
  /\ pState.currentIndex = 2
  /\ MapGet(pState.result.arguments, <<"x">>) # Undefined

\* the four keys of a parsed result
ResultKeys == {"arguments", "flags", "unknownArguments", "unknownFlags"}

\* C18: every result a parser returns has the four keys arguments, flags,
\* unknown flags and unknown arguments, under every configuration, policy and
\* token list; the two unknown buckets are empty unless the policy is
\* 'include', and the two parameter maps hold entries for declared
\* parameters only unless the policy is 'include'.
C18_FourKeys ==
  pPc = "returned" =>
    /\ DOMAIN pOutcome.result = ResultKeys
    /\ pContext.options.resolveUnknown # Some("include") =>
         /\ pOutcome.result.unknownFlags = EmptyMap
         /\ pOutcome.result.unknownArguments = <<>>
         /\ DOMAIN pOutcome.result.arguments \subseteq {a.name : a \in DeclaredArguments}
         /\ DOMAIN pOutcome.result.flags \subseteq {f.name : f \in DeclaredFlags}

\* C18 witness: with nothing declared and the policy omitted, a parse of
\* three tokens returned a result with the four keys, all of them empty.
C18_Witness ==
  /\ pPc = "returned"
  /\ NothingDeclared
  /\ pContext.options.resolveUnknown = None
  /\ Len(pArgv) = 3
  /\ DOMAIN pOutcome.result = ResultKeys
  /\ pOutcome.result = Result(EmptyMap, EmptyMap, <<>>, EmptyMap)

\* the aliases a flag declares
DeclaredAliases(flagOpt) ==
  IF flagOpt.alias.given
  THEN {flagOpt.alias.names[i] : i \in 1..Len(flagOpt.alias.names)}
  ELSE {}

\* the canonical names of the declared flags
CanonicalNames == {f.name : f \in DeclaredFlags}

\* alias resolution is switched off
AliasesOff == pContext.options.resolveAlias = Some(FALSE)

\* C19: with resolveAlias false, flagLookup holds the canonical flag names
\* only, each mapped to itself; a flag token handed to parseFlag that names a
\* flag by a declared alias is treated as an unknown flag under the
\* resolveUnknown policy (rejected under 'block', skipped otherwise) and never
\* changes the entry of the flag it is an alias of.
C19_AliasesOff ==
  /\ [](AliasesOff =>
          /\ DOMAIN pContext.flagLookup = CanonicalNames
          /\ \A n \in CanonicalNames : pContext.flagLookup[n] = n)
  /\ [][ \A flagOpt \in DeclaredFlags :
           ( /\ AliasesOff
             /\ AtToken
             /\ Dashed(Token)
             /\ ~TooLate
             /\ Stripped(Token) \in DeclaredAliases(flagOpt) \ CanonicalNames ) =>
             /\ MapGet(pState'.result.flags, flagOpt.name) =
                  MapGet(pState.result.flags, flagOpt.name)
             /\ IF pContext.options.resolveUnknown = Some("block")
                THEN FailsNext("Unknown flag", Token)
                ELSE /\ pState'.currentIndex = pState.currentIndex + 1
                     /\ pPc' = "loop"
                     /\ pContext.options.resolveUnknown # Some("include") =>
                          pState'.result = pState.result ]_vars

\* C19 witness: with resolveAlias false, the alias of a Boolean flag was
\* skipped and the canonical name then set the flag.
C19_Witness ==
  /\ pPc = "returned"
  /\ AliasesOff
  /\ pArgv = << <<"-", "V">>, <<"-", "-", "v">> >>
  /\ \E f \in DeclaredFlags : f.name = <<"v">> /\ <<"V">> \in DeclaredAliases(f)
  /\ <<"V">> \notin DOMAIN pContext.flagLookup
  /\ pTrace = << [at |-> 0, by |-> "parseFlag", next |-> 1],
                 [at |-> 1, by |-> "parseFlag", next |-> 2] >>
  /\ MapGet(pOutcome.result.flags, <<"v">>) = True

----------------------------------------------------------------------------
(* Properties of calls side by side *)

\* caller c has its outcome in hand
Finished(c) == sCalls[c].pc \in {"returned", "threw"}

\* C20: every call of a parser runs on a state object of its own, allocated
\* from the one shared context, which no call changes: the outcome of a call,
\* result or error, is the outcome _parse gives for the configuration and that
\* call's tokens alone, whatever calls came before on the same parser,
\* returned or failed, and whatever the steps of another call on the same
\* parser did in between its own.
C20_FreshStatePerCall ==
  /\ \A c \in Calls :
       /\ Finished(c) => sCalls[c].outcome = Parse(sCalls[c].argv, pContext)
       /\ sCalls[c].pc # "idle" => sHeap[sCalls[c].state].live
  /\ \A c, d \in Calls :
       (c # d /\ sCalls[c].pc # "idle" /\ sCalls[d].pc # "idle") =>
         sCalls[c].state # sCalls[d].state
  /\ pPc = "shared" => pContext = createParserContext(pContext.options)

\* C20 witness: two calls of one parser were in progress at once, each on a
\* state object of its own; one returned its result and the other failed.
C20_Witness ==
  /\ sCalls["a"].pc = "returned"
  /\ sCalls["a"].argv = << <<"-", "-", "v">>, <<"f">> >>
  /\ sCalls["b"].pc = "threw"
  /\ sCalls["b"].argv = << <<"-", "-", "v">>, <<"-", "-", "p">> >>
  /\ sCalls["b"].outcome.error = [kind |-> "Flag requires a value", subject |-> <<"-", "-", "p">>]
  /\ sCalls["a"].state = 1
  /\ sCalls["b"].state = 2
  /\ sCalls["a"].outcome.result # sHeap[2].state.result

\* C28: the parser context is immutable after construction: no step of any
\* parse (createInitialState, parseFlag, parseArgument,
\* validateRequiredParameters) changes flagLookup, flagDefaults,
\* argumentDefaults or the options, so after any sequence of parses the
\* context equals the one createParserContext returned.
C28_ContextImmutable ==
  /\ [][pPc = "shared" =>
          /\ pContext'.flagLookup = pContext.flagLookup
          /\ pContext'.flagDefaults = pContext.flagDefaults
          /\ pContext'.argumentDefaults = pContext.argumentDefaults
          /\ pContext'.options = pContext.options]_vars
  /\ [](pPc = "shared" => pContext = createParserContext(pContext.options))

\* C28 witness: a call has set a Boolean flag and an argument in its result
\* and returned while another call is under way; the defaults of the context
\* still hold the undefined placeholders.
C28_Witness ==
  /\ pPc = "shared"
  /\ sCalls["a"].pc = "returned"
  /\ sCalls["a"].argv = << <<"-", "-", "v">>, <<"f">> >>
  /\ sCalls["b"].pc = "loop"
  /\ MapGet(sCalls["a"].outcome.result.flags, <<"v">>) = True
  /\ <<"v">> \in DOMAIN pContext.flagDefaults
  /\ pContext.flagDefaults[<<"v">>] = Undefined
  /\ sCalls["a"].outcome.result.arguments # pContext.argumentDefaults

----------------------------------------------------------------------------
(* Properties of the runtime *)

\* the invocation in progress has passed the matcher with a command
PastMatch == rPc \in {"matched", "parsed", "resolved"} \/ rParsed.status # "none"

\* the invocation in progress has passed the parser with a result
PastParse == rPc \in {"parsed", "resolved"} \/ rHandled # <<>>

\* the parser context built from the specs of the matched command itself and
\* the app's parser options, with their fallbacks
OwnContext ==
  createParserContext(
    ParserOption(OrElse(rOption.parserOptions, "resolveAlias", TRUE),
                 OrElse(rOption.parserOptions, "resolveFlagAfterArgument", TRUE),
                 OrElse(rOption.parserOptions, "resolveUnknown", "ignore"),
                 ExecParameters(rMatch.command.val)[1],
                 ExecParameters(rMatch.command.val)[2]))

\* C21: an invocation of the runner matches, then parses, then handles: past
\* the matcher, matchResult is what matchCommands gives for args, the
\* top-level commands and the root command; what is parsed is exactly
\* matchResult.remainingArgs, by a parser built from the matched command's own
\* argument and flag specs; the handler invoked is the matched command's, once,
\* with the parsed result; when the matcher returns no command the runner
\* rejects with 'No command found'; when matching or parsing fails no handler
\* is invoked.
C21_MatchParseHandle ==
  /\ rPc \in {"matched", "parsed", "resolved", "rejected"} =>
       rMatch = matchCommands(rArgs, TopLevelCommands(rOption), rOption.rootCommand, 2)
  /\ (rPc \in {"matched", "parsed", "resolved", "rejected"} /\ ~rMatch.command.some) =>
       /\ rPc = "rejected"
       /\ rError = "No command found"
       /\ rParsed = NoOutcome
       /\ rHandled = <<>>
  /\ PastMatch =>
       /\ rMatch.command.some
       /\ rPc # "matched" => rParsed = Parse(rMatch.remainingArgs, OwnContext)
  /\ rParsed.status = "threw" => rPc = "rejected" /\ rHandled = <<>>
  /\ PastParse => rParsed.status = "returned"
  /\ rHandled # <<>> =>
       rHandled = << [command |-> rMatch.command.val.id, context |-> rParsed.result] >>
  /\ rPc = "resolved" => Len(rHandled) = 1
  /\ rPc \in {"none", "invalid", "ready", "called", "matched", "parsed"} => rHandled = <<>>

\* C21 witness: the runner matched a top-level command, parsed the token
\* after it with that command's specs and its handler was invoked once with
\* the result.
C21_Witness ==
  /\ rPc = "resolved"
  /\ rArgs = << <<"n", "o", "d", "e">>, <<"s">>, <<"a">>, <<"-", "-", "v">> >>
  /\ rMatch.matchedPath = << <<"a">> >>
  /\ rMatch.remainingArgs = << <<"-", "-", "v">> >>
  /\ Len(rHandled) = 1
  /\ rHandled[1].command = <<1>>
  /\ MapGet(rHandled[1].context.flags, <<"v">>) = True

\* C22: every forest of command nodes that reaches matchCommands through the
\* runner has been validated: at no level do two sibling commands share an
\* execution name.
C22_ForestValidated ==
  rPc \in {"called", "matched", "parsed", "resolved", "rejected"} =>
    validateCommands(TopLevelCommands(rOption)) = None

----------------------------------------------------------------------------
(* Properties of createParserContext and createInitialState *)

\* a context has been built
Built == pPc \in {"built", "started"}

\* alias resolution is enabled, given or by omission
AliasesOn == pContext.options.resolveAlias # Some(FALSE)

\* the names a flag registers in flagLookup: its canonical name and, when
\* alias resolution is enabled, its aliases; an alias declared as the empty
\* string is not registered
Registers(flagOpt) ==
  {flagOpt.name}
    \cup (IF ~AliasesOn THEN {}
          ELSE IF flagOpt.alias.isArray THEN DeclaredAliases(flagOpt)
          ELSE DeclaredAliases(flagOpt) \ {<<>>})

\* the positions, in declaration order, of the flags that register a name
RegisteredAt(n) ==
  {i \in 1..Len(pContext.options.flags.val) : n \in Registers(pContext.options.flags.val[i])}

\* the greatest element of a non-empty set of numbers
Greatest(S) == CHOOSE i \in S : \A j \in S : j <= i

\* C24 as stated: for every configuration flagLookup maps every declared
\* flag's canonical name to itself and, when alias resolution is enabled,
\* every declared alias to the canonical name of the flag that declares it.
C24_LookupAsStated ==
  Built =>
    \A flagOpt \in DeclaredFlags :
      /\ flagOpt.name \in DOMAIN pContext.flagLookup
      /\ pContext.flagLookup[flagOpt.name] = flagOpt.name
      /\ AliasesOn =>
           \A alias \in DeclaredAliases(flagOpt) :
             /\ alias \in DOMAIN pContext.flagLookup
             /\ pContext.flagLookup[alias] = flagOpt.name

\* C24 amended: flagLookup holds exactly the names the declared flags
\* register - every canonical name and, when alias resolution is enabled,
\* every alias declared as a non-empty string or in a list - and maps each to
\* the canonical name of the flag that registers it; a name that several
\* flags register goes to the one declared last.
C24_FlagLookup ==
  Built =>
    /\ DOMAIN pContext.flagLookup = UNION {Registers(flagOpt) : flagOpt \in DeclaredFlags}
    /\ \A n \in DOMAIN pContext.flagLookup :
         pContext.flagLookup[n] = pContext.options.flags.val[Greatest(RegisteredAt(n))].name

\* C24 witness: two flags, the first with a list of two aliases, with alias
\* resolution on by omission; both aliases lead to the first flag and each
\* canonical name to itself.
C24_Witness ==
  /\ pPc = "built"
  /\ pContext.options.resolveAlias = None
  /\ pContext.options.flags.some
  /\ Len(pContext.options.flags.val) = 2
  /\ pContext.options.flags.val[1].alias = AliasArray(<< <<"V">>, <<"w">> >>)
  /\ pContext.options.flags.val[2].alias = NoAlias
  /\ pContext.flagLookup =
       MapSet(MapSet(MapSet(MapSet(EmptyMap, <<"v">>, <<"v">>), <<"V">>, <<"v">>),
                     <<"w">>, <<"v">>), <<"p">>, <<"p">>)

\* a defaults map has an entry for a parameter exactly when the parameter is
\* not required, and the entry is the declared default (undefined without one)
EntryIffOptional(defaults, opt) ==
  /\ opt.name \in DOMAIN defaults <=> opt.required # Some(TRUE)
  /\ opt.name \in DOMAIN defaults => defaults[opt.name] = opt.default

\* C25: flagDefaults and argumentDefaults have an entry for a parameter if and
\* only if the parameter is not required, holding the declared default or the
\* undefined placeholder; a required parameter never has an entry, whether or
\* not it declares a default.
C25_DefaultsIffOptional ==
  Built =>
    /\ \A flagOpt \in DeclaredFlags : EntryIffOptional(pContext.flagDefaults, flagOpt)
    /\ \A argOpt \in DeclaredArguments : EntryIffOptional(pContext.argumentDefaults, argOpt)

\* createInitialState has returned the state at hand
Started == pPc = "started"

\* the state starts at cursor 0 and argument cursor 0, its flags and arguments
\* hold exactly the entries of flagDefaults and argumentDefaults, and both
\* unknown buckets are empty
StartsFromDefaults ==
  /\ pState.currentIndex = 0
  /\ pState.currentArgIndex = 0
  /\ pState.result.flags = pContext.flagDefaults
  /\ pState.result.arguments = pContext.argumentDefaults
  /\ pState.result.unknownArguments = <<>>
  /\ pState.result.unknownFlags = EmptyMap
  /\ pState.context = pContext

\* an optional parameter without default starts with the undefined placeholder
PlaceholdersKept ==
  /\ \A flagOpt \in DeclaredFlags :
       flagOpt.required # Some(TRUE) /\ flagOpt.default = Undefined
         => /\ flagOpt.name \in DOMAIN pState.result.flags
            /\ pState.result.flags[flagOpt.name] = Undefined
  /\ \A argOpt \in DeclaredArguments :
       argOpt.required # Some(TRUE) /\ argOpt.default = Undefined
         => /\ argOpt.name \in DOMAIN pState.result.arguments
            /\ pState.result.arguments[argOpt.name] = Undefined

\* a required parameter starts without an entry
RequiredLeftOut ==
  /\ \A flagOpt \in DeclaredFlags :
       flagOpt.required = Some(TRUE) => flagOpt.name \notin DOMAIN pState.result.flags
  /\ \A argOpt \in DeclaredArguments :
       argOpt.required = Some(TRUE) => argOpt.name \notin DOMAIN pState.result.arguments

\* the part of C26 that is about createInitialState alone
C26_CopiesDefaults == Started => StartsFromDefaults /\ PlaceholdersKept

\* C26: every parse starts with cursor 0 and argumentCursor 0, with the flags
\* and arguments maps holding exactly the entries of flagDefaults and
\* argumentDefaults (undefined placeholders for optional parameters without
\* default, no entry for required parameters), and with both unknown buckets
\* empty.
C26_InitialState ==
  Started => StartsFromDefaults /\ PlaceholdersKept /\ RequiredLeftOut

----------------------------------------------------------------------------
(* Properties of the whole parse *)

\* C27: for every configuration and every finite token list the parse
\* terminates, with a result or with an error: every iteration of the main
\* loop that returns (parseFlag or parseArgument) strictly increases the
\* cursor, the cursor never exceeds the number of tokens, and a parse that
\* has entered the loop ends by returning or throwing.
C27_Terminates ==
  /\ [][pPc = "loop" /\ pPc' = "loop" => pState'.currentIndex > pState.currentIndex]_vars
  /\ [](pPc \in {"loop", "returned", "threw"} => pState.currentIndex <= Len(pArgv))
  /\ (pPc = "loop") ~> (pPc \in {"returned", "threw"})

\* C27 witness: a parse of three tokens has returned after two iterations,
\* one of which moved the cursor by two, with the cursor on the token count.
C27_Witness ==
  /\ pPc = "returned"
  /\ Len(pArgv) = 3
  /\ Len(pTrace) = 2
  /\ \E i \in 1..2 : pTrace[i].next = pTrace[i].at + 2
  /\ pState.currentIndex = 3

\* the positions, in declaration order, of the positionals that declare count 'all'
AllPositions ==
  IF pContext.options.arguments.some
  THEN {i \in 1..Len(pContext.options.arguments.val) : pContext.options.arguments.val[i].count.all}
  ELSE {}

\* the declared positionals that no token of a finished parse was offered to
LeftBehind ==
  IF pContext.options.arguments.some
  THEN {i \in 1..Len(pContext.options.arguments.val) : i > pState.currentArgIndex + 1}
  ELSE {}

\* C29: in every configuration the parser operates on, at most one positional
\* declares count 'all' and it is the last one in declaration order, so once
\* an 'all' spec has taken the cursor to the end of the input no declared
\* positional is left behind it.
C29_AllIsLast ==
  pPc \in {"ready", "loop", "returned", "threw"} =>
    /\ \A i \in AllPositions : i = Len(pContext.options.arguments.val)
    /\ \A i \in 1..Len(pTrace) :
         (pTrace[i].by = "parseArgument" /\ (pState.currentArgIndex + 1) \in AllPositions)
           => LeftBehind = {}

\* C30: when resolveFlagAfterArgument is omitted from the parser options the
\* parser applies the documented default false: every flag token the loop
\* reaches after an argument token has been processed ends the parse with
\* 'Flag <token> cannot appear after arguments', exactly as when the option
\* is set to false.
C30_OmittedMeansFalse ==
  (pPc \in {"loop", "returned", "threw"} /\ pContext.options.resolveFlagAfterArgument = None) =>
    \A k \in 1..Len(pTrace) :
      (Dashed(At(pArgv, pTrace[k].at)) /\ ArgumentProcessed(k - 1)) =>
        /\ k = Len(pTrace)
        /\ pTrace[k].by = "_parse"
        /\ Fails("Flag cannot appear after arguments", At(pArgv, pTrace[k].at))

----------------------------------------------------------------------------
(* Properties of resolveValue *)

\* stepK(...step1(token)): the last step applied to what the steps before it give
RECURSIVE Composed(_, _)
Composed(steps, token) ==
  IF steps = <<>> THEN Raw(token)
  ELSE ApplyStep(Composed(SubSeq(steps, 1, Len(steps) - 1), token), steps[Len(steps)])

\* C31: resolveValue with a chain [step1, ..., stepK] returns
\* stepK(...step1(token)): the steps are applied left to right, the first to
\* the raw token and each next one to the previous step's output; a one-step
\* chain gives the same value as that step used alone as the resolver.
C31_ChainComposes ==
  (vPc = "resolved" /\ vResolver.isArray) =>
    /\ vValue = Composed(vResolver.steps, vToken)
    /\ Len(vResolver.steps) = 1 =>
         vValue = resolveValue(vToken, Single(vResolver.steps[1]))

\* C31 witness: a chain of an arrow function and then a constructor was
\* applied to ' 5': the function was called on the raw string and the
\* constructor instantiated with what it returned.
C31_Witness ==
  /\ vPc = "resolved"
  /\ vResolver = Chain(<<FnStep("trim"), CtorStep("Number")>>)
  /\ vToken = <<" ", "5">>
  /\ vValue = Scalar(<<"string", "call", "trim", "new", "Number">>, <<" ", "5">>)

----------------------------------------------------------------------------
(* Properties of building a context again *)

\* the context a second createParserContext builds from the configuration
\* object the parser at hand was built from, as that object is now
SecondContext == createParserContext(pContext.options)

----------------------------------------------------------------------------
(* Properties of tokens that are consumed unclassified *)

\* the number of tokens the positional spec at argumentCursor consumes
Consumed == IF SlotSpec.count.all THEN TokensLeft ELSE Taken

\* the offsets from the cursor of the dashed tokens that follow the token at
\* the cursor inside the range the spec consumes
DashedInside ==
  {j \in 1..(Consumed - 1) : Dashed(At(pArgv, pState.currentIndex + j))}

\* the items stored under the name of the spec at argumentCursor by the step
StoredItems == MapGet(pState'.result.arguments, SlotSpec.name).items

\* C34: parseArgument for a positional with count 'all' or count N > 1
\* consumes the following tokens without classifying them: a token beginning
\* with a dash inside the consumed range is stored as an argument value, the
\* step sets no flag and raises no error, also with resolveFlagAfterArgument
\* false, and the loop never stands on such a token, so it is never parsed as
\* a flag.
C34_DashedTokensConsumed ==
  /\ [][ (AtFreeSlot /\ (SlotSpec.count.all \/ SlotCount > 1)) =>
           /\ pPc' = "loop"
           /\ pState'.result.flags = pState.result.flags
           /\ pState'.result.unknownFlags = pState.result.unknownFlags
           /\ \A j \in DashedInside :
                /\ j + 1 <= Len(StoredItems)
                /\ StoredItems[j + 1] =
                     resolveValue(At(pArgv, pState.currentIndex + j), SlotSpec.resolver)
                /\ pState'.currentIndex > pState.currentIndex + j ]_vars
  /\ [](\A i, k \in 1..Len(pTrace) :
          pTrace[i].by = "parseArgument" =>
            ~(pTrace[i].at < pTrace[k].at /\ pTrace[k].at < pTrace[i].next))

\* C34 witness: with resolveFlagAfterArgument false a positional of count 2
\* took 'f' and the declared flag '--v' after it; the parse returned with
\* '--v' among the values and the flag still unset.
C34_Witness ==
  /\ pPc = "returned"
  /\ pContext.options.resolveFlagAfterArgument = Some(FALSE)
  /\ pArgv = << <<"f">>, <<"-", "-", "v">>, <<"g">> >>
  /\ pTrace = << [at |-> 0, by |-> "parseArgument", next |-> 2],
                 [at |-> 2, by |-> "parseArgument", next |-> 3] >>
  /\ <<"v">> \in DOMAIN pContext.flagLookup
  /\ MapGet(pOutcome.result.flags, <<"v">>) = Undefined
  /\ MapGet(pOutcome.result.arguments, <<"x">>) =
       Array(<< Scalar(<<"string", "new", "String">>, <<"f">>),
                Scalar(<<"string", "new", "String">>, <<"-", "-", "v">>) >>)

\* the token after the one the loop stands on
NextToken == At(pArgv, pState.currentIndex + 1)

\* C35: parseFlag on a known non-Boolean flag takes the immediately following
\* token as the flag's value without classifying it: a following token that
\* begins with a dash is resolved and stored as the value, sets no flag of its
\* own and is never parsed as a flag, and 'Flag <token> requires a value' is
\* raised only when the flag is the very last token.
C35_DashedValueTaken ==
  /\ [][ \A flagOpt \in DeclaredFlags :
           ( /\ flagOpt.resolver # Boolean
             /\ NamesFlag(flagOpt)
             /\ pState.currentIndex + 1 < Len(pArgv)
             /\ Dashed(NextToken) ) =>
             /\ pPc' = "loop"
             /\ MapGet(pState'.result.flags, flagOpt.name) =
                  resolveValue(NextToken, flagOpt.resolver)
             /\ \A other \in DeclaredFlags :
                  other.name # flagOpt.name =>
                    MapGet(pState'.result.flags, other.name) =
                      MapGet(pState.result.flags, other.name)
             /\ ( /\ Stripped(NextToken) # flagOpt.name
                  /\ Stripped(NextToken) \notin DOMAIN pState.result.flags ) =>
                  Stripped(NextToken) \notin DOMAIN pState'.result.flags
             /\ pState'.currentIndex = pState.currentIndex + 2 ]_vars
  /\ [][ (AtToken /\ pPc' = "threw" /\ pOutcome'.error.kind = "Flag requires a value") =>
           pState.currentIndex + 1 = Len(pArgv) ]_vars
  /\ [](\A i, k \in 1..Len(pTrace) :
          pTrace[i].by = "parseFlag" =>
            ~(pTrace[i].at < pTrace[k].at /\ pTrace[k].at < pTrace[i].next))

\* C35 witness: flag p was followed by '--v', the name of a declared Boolean
\* flag: '--v' went through p's resolvers as its value in one step, and the
\* parse returned with v unset.
C35_Witness ==
  /\ pPc = "returned"
  /\ pArgv = << <<"-", "-", "p">>, <<"-", "-", "v">> >>
  /\ pTrace = << [at |-> 0, by |-> "parseFlag", next |-> 2] >>
  /\ <<"v">> \in DOMAIN pContext.flagLookup
  /\ MapGet(pOutcome.result.flags, <<"p">>) =
       Scalar(<<"string", "call", "trim", "new", "Number">>, <<"-", "-", "v">>)
  /\ MapGet(pOutcome.result.flags, <<"v">>) = Undefined

\* one of the first k iterations of the loop went to parseArgument
RoutedToArgument(k) == \E j \in 1..k : pTrace[j].by = "parseArgument"

\* C36: with resolveFlagAfterArgument false, a token consumed as the value of
\* a non-Boolean flag does not count as an argument token, whereas every token
\* routed to parseArgument counts, excess argument tokens included: a flag
\* token the loop reaches is rejected with 'Flag <token> cannot appear after
\* arguments' if and only if an earlier iteration went to parseArgument, and
\* otherwise it is handed to parseFlag.
C36_OnlyArgumentsCount ==
  (pPc \in {"loop", "returned", "threw"}
     /\ pContext.options.resolveFlagAfterArgument = Some(FALSE)) =>
    /\ pEncountered <=> RoutedToArgument(Len(pTrace))
    /\ \A k \in 1..Len(pTrace) :
         /\ pTrace[k].by = "parseArgument" <=> ~Dashed(At(pArgv, pTrace[k].at))
         /\ Dashed(At(pArgv, pTrace[k].at)) =>
              IF RoutedToArgument(k - 1)
              THEN /\ pTrace[k].by = "_parse"
                   /\ k = Len(pTrace)
                   /\ Fails("Flag cannot appear after arguments", At(pArgv, pTrace[k].at))
              ELSE pTrace[k].by = "parseFlag"

\* C36 witness: with resolveFlagAfterArgument false, flag p took the plain
\* token 'f' as its value and the flag '--v' after it was still parsed.
C36_Witness ==
  /\ pPc = "returned"
  /\ pContext.options.resolveFlagAfterArgument = Some(FALSE)
  /\ pArgv = << <<"-", "-", "p">>, <<"f">>, <<"-", "-", "v">> >>
  /\ pTrace = << [at |-> 0, by |-> "parseFlag", next |-> 2],
                 [at |-> 2, by |-> "parseFlag", next |-> 3] >>
  /\ ~pEncountered
  /\ MapGet(pOutcome.result.flags, <<"v">>) = True

\* a second state of the same case: an excess argument token that was ignored
\* made the flag after it fail
C36_ExcessCounts ==
  /\ pPc = "threw"
  /\ pContext.options.resolveFlagAfterArgument = Some(FALSE)
  /\ ~pContext.options.arguments.some
  /\ pArgv = << <<"f">>, <<"-", "-", "v">> >>
  /\ Fails("Flag cannot appear after arguments", <<"-", "-", "v">>)

----------------------------------------------------------------------------
(* Properties of repeated flags *)

\* the iterations so far in which parseFlag returned on a token that names
\* this flag by a registered name
Occurrences(flagOpt) ==
  {k \in 1..Len(pTrace) :
     /\ pTrace[k].by = "parseFlag"
     /\ pTrace[k].next > pTrace[k].at
     /\ Stripped(At(pArgv, pTrace[k].at)) \in RegisteredNames(flagOpt)}

\* the value the occurrence of iteration k gives the flag
GivenAt(flagOpt, k) ==
  IF flagOpt.resolver = Boolean THEN True
  ELSE resolveValue(At(pArgv, pTrace[k].at + 1), flagOpt.resolver)

\* C37: when the same known flag occurs more than once in one token list, by
\* canonical name or by any alias, the parse does not fail for that reason
\* and the stored value is the one given by the last occurrence, overriding the
\* default and the earlier occurrences; a Boolean flag stays true.
C37_LastOccurrenceWins ==
  pPc \in {"loop", "returned", "threw"} =>
    \A flagOpt \in DeclaredFlags :
      Occurrences(flagOpt) # {} =>
        /\ MapGet(pState.result.flags, flagOpt.name) =
             GivenAt(flagOpt, Greatest(Occurrences(flagOpt)))
        /\ pPc = "returned" =>
             MapGet(pOutcome.result.flags, flagOpt.name) =
               GivenAt(flagOpt, Greatest(Occurrences(flagOpt)))
        /\ (pPc = "threw" /\ pTrace[Len(pTrace)].by = "parseFlag"
              /\ pTrace[Len(pTrace)].next = pTrace[Len(pTrace)].at
              /\ Stripped(At(pArgv, pTrace[Len(pTrace)].at)) \in RegisteredNames(flagOpt)) =>
             /\ pOutcome.error.kind = "Flag requires a value"
             /\ pTrace[Len(pTrace)].at = Len(pArgv) - 1

\* C37 witness: flag p was given 'f' by its canonical name and then '-V' by
\* its alias u; the parse returned with the value of the second occurrence.
C37_Witness ==
  /\ pPc = "returned"
  /\ pArgv = << <<"-", "-", "p">>, <<"f">>, <<"-", "-", "u">>, <<"-", "V">> >>
  /\ <<"u">> \in DOMAIN pContext.flagLookup
  /\ pTrace = << [at |-> 0, by |-> "parseFlag", next |-> 2],
                 [at |-> 2, by |-> "parseFlag", next |-> 4] >>
  /\ MapGet(pOutcome.result.flags, <<"p">>) =
       Scalar(<<"string", "call", "trim", "new", "Number">>, <<"-", "V">>)

----------------------------------------------------------------------------
(* Properties of the order of errors *)

\* the errors raised on a token
TokenErrors ==
  {"Flag cannot appear after arguments", "Unknown flag", "Unexpected argument",
   "Flag requires a value"}

\* the last iteration of the loop threw
LastThrew ==
  /\ pTrace # <<>>
  /\ pTrace[Len(pTrace)].next = pTrace[Len(pTrace)].at

\* the positions, in declaration order, of the required parameters of a
\* list whose entry in values is unset
MissingAt(params, values) ==
  IF params.some
  THEN {i \in 1..Len(params.val) :
          params.val[i].required = Some(TRUE) /\ MapGet(values, params.val[i].name) = Undefined}
  ELSE {}

\* C38: an error raised while consuming tokens (structural order, unknown
\* token under 'block', missing value) is reported at the first offending
\* token in input order and pre-empts every missing-required error; when only
\* required parameters are missing exactly one is reported: the first missing
\* required positional in declaration order, and the first missing required
\* flag only if no required positional is missing.
C38_ErrorPrecedence ==
  pPc = "threw" =>
    LET arguments == MissingAt(pContext.options.arguments, pState.result.arguments)
        flags == MissingAt(pContext.options.flags, pState.result.flags)
    IN /\ pOutcome.error.kind \in TokenErrors \cup RequiredErrors
       /\ \A k \in 1..(Len(pTrace) - 1) : pTrace[k].next > pTrace[k].at
       /\ LastThrew <=> pOutcome.error.kind \in TokenErrors
       /\ LastThrew =>
            /\ pOutcome.error.subject = At(pArgv, pTrace[Len(pTrace)].at)
            /\ pState.currentIndex = pTrace[Len(pTrace)].at
            /\ Parse(SubSeq(pArgv, 1, pTrace[Len(pTrace)].at), pContext).error.kind
                 \notin TokenErrors
       /\ ~LastThrew =>
            /\ pState.currentIndex = Len(pArgv)
            /\ arguments \cup flags # {}
            /\ pOutcome.error =
                 IF arguments # {}
                 THEN [kind |-> "Required argument is missing",
                       subject |-> pContext.options.arguments.val[Least(arguments)].name]
                 ELSE [kind |-> "Required flag is missing",
                       subject |-> pContext.options.flags.val[Least(flags)].name]

\* C38 witness: under 'block' an unknown flag came second of three tokens
\* while a required positional and two required flags were still unset; the
\* parse failed on that token and reported none of the missing parameters.
C38_Witness ==
  /\ Fails("Unknown flag", <<"-", "-", "u">>)
  /\ pArgv = << <<"f">>, <<"-", "-", "u">>, <<"g">> >>
  /\ MissingAt(pContext.options.arguments, pState.result.arguments) = {2}
  /\ MissingAt(pContext.options.flags, pState.result.flags) = {1, 2}

\* a second state of the same case: the first required flag was given, both
\* positionals too, and the second required flag was reported
C38_SecondFlagReported ==
  /\ Fails("Required flag is missing", <<"p">>)
  /\ pArgv = << <<"f">>, <<"g">>, <<"-", "-", "v">> >>
  /\ MissingAt(pContext.options.flags, pState.result.flags) = {2}

----------------------------------------------------------------------------
(* Properties of the runtime and the matcher together *)

\* a runner exists
RunnerExists == rPc \notin {"none", "invalid"}

\* C39: through createRuntime the matcher's configuration error is
\* unreachable: createRuntime hands out a runner only for an app option with
\* a root command or at least one command, so every call of matchCommands a
\* runner makes has a non-empty top-level command list or a root command, and
\* no invocation is rejected with 'No commands available for matching'.
C39_ConfigurationErrorUnreachable ==
  /\ RunnerExists =>
       (Len(TopLevelCommands(rOption)) > 0 \/ rOption.rootCommand.some)
  /\ rPc = "called" =>
       ~matchCommands(rArgs, TopLevelCommands(rOption), rOption.rootCommand, 2).threw
  /\ rError # "No commands available for matching"

\* C39 witness: createRuntime threw on an app option whose commands array is
\* empty and that has no root command; no runner exists.
C39_Witness ==
  /\ rPc = "invalid"
  /\ rError = "App option commands array cannot be empty"
  /\ rOption = BlankOption

\* a second state of the same case: a runner without a root command called
\* the matcher with its one command, which the token did not name; the
\* invocation was rejected for want of a match, not for the configuration
C39_MissIsNoConfigurationError ==
  /\ rPc = "rejected"
  /\ rError = "No command found"
  /\ ~rOption.rootCommand.some
  /\ Len(TopLevelCommands(rOption)) = 1
  /\ Len(rArgs) = 3

====
